---- MODULE Spec2Model ----
(***************************************************************************)
(* Model of the run tracker of ask-bonk (src/src/agent.ts, class           *)
(* RepoAgent): trackRun schedules a poll, checkWorkflowStatus is the poll  *)
(* handler the host scheduler invokes when a trigger is due, and           *)
(* postFailureComment delivers the terminal notification.  The agent also  *)
(* keeps the pending correlation entries: addPendingWorkflow registers one *)
(* and schedules its cleanup, consumePendingWorkflow hands one out, and    *)
(* cleanupPendingWorkflow is the handler of the cleanup trigger.           *)
(*                                                                         *)
(* Time is the wall clock in seconds (Date.now() is 1000 * now).  The host *)
(* scheduler fires a trigger at or after its due time.                     *)
(*                                                                         *)
(* Spec      one tracked run, a scheduler that may fire late, and the      *)
(*           history variables last and paths observing every handler run  *)
(* LiveSpec  Spec with the fairness of the clock and of the scheduler      *)
(* SpecRuns  several trackRun invocations (also of one run id), a punctual *)
(*           scheduler, the history variables left alone                   *)
(* SpecPending  the operations on pending entries and the installation id, *)
(*           a punctual scheduler, last and prev observing the last two    *)
(*           operations                                                    *)
(* SpecTracked  one tracked run beside the operations on pending entries,  *)
(*           a punctual scheduler, last, paths and prev left alone         *)
(* SpecRepos  the trackers of two repositories side by side, each call     *)
(*           routed by the agent's name; calls arrive at time 0, last      *)
(*           holds the repository the last operation was addressed to      *)
(* SpecRequest  one direct-mode request (processRequest, the second part   *)
(*           of src/src/agent.ts) stepping from await to await, every      *)
(*           awaited call succeeding or throwing                           *)
(* SpecWebhook  one webhook delivery through verifyWebhook and             *)
(*           handleWebhook, followed into processRequest                   *)
(* SpecAwait  the agent's calls interleaved at the await of                *)
(*           addPendingWorkflow, calls holding their serial order          *)
(* SpecOnTime  one tracked run under a scheduler that fires every poll     *)
(*           when due, last counting the status queries made               *)
(* SpecMode  interleaved calls of runWorkflowMode and createWorkflowPR     *)
(*           (src/src/workflow.ts and src/unnamed/part_000)                *)
(* SpecFind  one call of findWorkflowRun (src/src/github.ts)               *)
(***************************************************************************)
EXTENDS Integers, Sequences, FiniteSets, TLC

VARIABLES
    now,        \* wall clock, seconds
    schedules,  \* outstanding one-shot triggers of the agent (this.schedule)
    trk,        \* history: one record per trackRun invocation (its poll chain)
    last,       \* history: what the operation just run did (none after a clock step)
    paths,      \* history: the paths the poll handler has taken so far
    state,      \* the agent's persisted state (this.state)
    regs,       \* history: per addPendingWorkflow invocation, how often its entry
                \* was returned; per key, the invocation that wrote its entry
    prev,       \* history: what the operation before the last one did
    other,      \* the tracker of another repository: its state, its triggers and
                \* (history) how often addPendingWorkflow and trackRun were called
    req,        \* one direct-mode request: where processRequest stands and
                \* what it has done so far
    hook,       \* one webhook delivery: the request, where handleWebhook
                \* stands, and its response
    wf,         \* the calls of the workflow-mode functions: where each stands
                \* and what it has done so far
    calls       \* history: the agent's calls in the order they touched its
                \* state, and the calls suspended at an await

vars == <<now, schedules, trk, last, paths, state, regs, prev, other, req, hook, wf, calls>>

-----------------------------------------------------------------------------
(* Program constants                                                       *)

POLL_INTERVAL_SECONDS == 30

MAX_TRACKING_TIME_MS == 30 * 60 * 1000

PENDING_WORKFLOW_CLEANUP_SECONDS == 600

-----------------------------------------------------------------------------
(* Bounds of the model                                                     *)

\* number of trackRun invocations
MaxTracks == 2

\* how many clock steps late the scheduler may fire a due trigger
MaxLateSteps == 1

\* the clock advances in steps of one poll interval
Step == POLL_INTERVAL_SECONDS

\* trackRun is called while now <= TrackWindow
TrackWindow == Step

\* the clock stops here; every poll chain has ended before (HorizonNotBinding)
Horizon == TrackWindow + (MAX_TRACKING_TIME_MS \div 1000) + (MaxLateSteps + 2) * Step

\* the arguments of trackRun: run id and issue number
TrackInputs == { [runId |-> 7, issueNumber |-> 3], [runId |-> 8, issueNumber |-> 42] }

RunIds == { i.runId : i \in TrackInputs }

\* JavaScript null (a conclusion or a status the API left unset)
Null == "<null>"

\* status and conclusion of the GitHub API's workflow-run object
ApiStatuses == { "queued", "in_progress", "completed", Null }

ApiConclusions == { "success", "failure", "cancelled", "timed_out", Null }

\* what the environment answers to one poll: createOctokit throws, or the
\* status query throws, or it returns a run object (whose conclusion is null
\* until the run has completed)
PollEnvs ==
    [ auth : {"fault"}, query : {"ok"}, status : {Null}, conclusion : {Null} ]
    \cup
    [ auth : {"ok"}, query : {"fault"}, status : {Null}, conclusion : {Null} ]
    \cup
    [ auth : {"ok"}, query : {"ok"}, status : ApiStatuses \ {"completed"}, conclusion : {Null} ]
    \cup
    [ auth : {"ok"}, query : {"ok"}, status : {"completed"}, conclusion : ApiConclusions ]

\* what the environment does to one notification delivery
Deliveries == { "ok", "authFault", "commentFault" }

-----------------------------------------------------------------------------
(* Pure functions                                                          *)

\* Date.now(), milliseconds
DateNow == now * 1000

\* the run URL the tracking script builds from the run id
RunUrl(runId) == <<"https://github.com/o/r/actions/runs/", runId>>

\* getWorkflowRunStatus: status defaults to 'unknown', conclusion is passed on
getWorkflowRunStatus(env) ==
    [ status     |-> IF env.status = Null THEN "unknown" ELSE env.status,
      conclusion |-> env.conclusion ]

\* statusMessage with a null conclusion printed as it is
statusMessage_PrintsNull(conclusion) ==
    IF conclusion = "timeout" THEN <<"Bonk", "workflow", "timed", "out", ".">>
    ELSE IF conclusion = "failure"
        THEN <<"Bonk", "workflow", "failed", ".", "Check", "the", "logs", "for", "details", ".">>
    ELSE IF conclusion = "cancelled" THEN <<"Bonk", "workflow", "was", "cancelled", ".">>
    ELSE <<"Bonk", "workflow", "finished", "with", "status:", conclusion>>

\* the message of postFailureComment, as a sequence of words and marks
statusMessage(conclusion) ==
    IF conclusion = "timeout" THEN <<"Bonk", "workflow", "timed", "out", ".">>
    ELSE IF conclusion = "failure"
        THEN <<"Bonk", "workflow", "failed", ".", "Check", "the", "logs", "for", "details", ".">>
    ELSE IF conclusion = "cancelled" THEN <<"Bonk", "workflow", "was", "cancelled", ".">>
    ELSE <<"Bonk", "workflow", "finished", "with", "status:",
           IF conclusion = Null THEN "unknown" ELSE conclusion>>

\* does the try block of postFailureComment throw under this delivery
DeliveryThrows(delivery) == delivery # "ok"

\* PostCatches without the catch
PostCatches_Not == FALSE

\* is an exception thrown inside the try block of postFailureComment caught
PostCatches == TRUE

\* postFailureComment: the comments it creates and whether it throws
postFailureComment(runUrl, issueNumber, conclusion, delivery) ==
    LET body == statusMessage(conclusion) \o <<"[View workflow run](", runUrl, ")">>
    IN  [ posted |-> IF DeliveryThrows(delivery)
                        THEN <<>>
                        ELSE << [issueNumber |-> issueNumber, body |-> body] >>,
          threw  |-> DeliveryThrows(delivery) /\ ~PostCatches ]

\* TimedOut with the ceiling read as seconds
TimedOut_Seconds(elapsed) == elapsed > MAX_TRACKING_TIME_MS \div 1000

\* TimedOut with the ceiling itself counted as a timeout
TimedOut_AtCeiling(elapsed) == elapsed >= MAX_TRACKING_TIME_MS

\* TimedOut with the ceiling never applied
TimedOut_Never(elapsed) == FALSE

\* the ceiling test of the poll handler
TimedOut(elapsed) == elapsed > MAX_TRACKING_TIME_MS

\* IsCompleted taking every status that is not queued or in progress as finished
IsCompleted_NotRunning(status) == status.status \notin {"queued", "in_progress"}

\* the test for a finished run
IsCompleted(status) == status.status = "completed"

\* ShouldNotify for the conclusion 'failure' alone
ShouldNotify_OnlyFailure(conclusion) == conclusion = "failure"

\* ShouldNotify for every conclusion
ShouldNotify_Always(conclusion) == TRUE

\* the test that makes a finished run notify
ShouldNotify(conclusion) == conclusion # "success"

\* SchedulePoll with the payload's createdAt stamped anew
SchedulePoll_Restamps(payload) ==
    [ callback |-> "checkWorkflowStatus",
      payload |-> [ payload EXCEPT !.createdAt = DateNow ],
      time |-> now + POLL_INTERVAL_SECONDS ]

\* this.schedule(POLL_INTERVAL_SECONDS, 'checkWorkflowStatus', payload)
SchedulePoll(payload) ==
    [ callback |-> "checkWorkflowStatus", payload |-> payload,
      time |-> now + POLL_INTERVAL_SECONDS ]

\* a handler run that did nothing yet: the triggers it schedules, the
\* conclusions it calls postFailureComment with, the comments created, the
\* status queries made, and whether it throws
NoEffect ==
    [ path |-> "", scheduled |-> <<>>, notified |-> <<>>, posted |-> <<>>,
      queries |-> 0, threw |-> FALSE ]

\* OnAuthFault without the try/catch: the exception leaves the handler
OnAuthFault_Uncaught(payload) ==
    [ NoEffect EXCEPT !.path = "authFault", !.threw = TRUE ]

\* createOctokit threw: the catch reschedules and returns
OnAuthFault(payload) ==
    [ NoEffect EXCEPT !.path = "authFault", !.scheduled = <<SchedulePoll(payload)>> ]

\* the status query threw: the catch reschedules
OnQueryFault(payload) ==
    [ NoEffect EXCEPT !.path = "queryFault", !.queries = 1,
                      !.scheduled = <<SchedulePoll(payload)>> ]

\* OnPending with a second poll scheduled behind the first
OnPending_Twice(payload) ==
    [ NoEffect EXCEPT !.path = "pending", !.queries = 1,
                      !.scheduled = << SchedulePoll(payload),
                                       [ SchedulePoll(payload) EXCEPT
                                           !.time = @ + POLL_INTERVAL_SECONDS ] >> ]

\* the run is not completed: reschedule
OnPending(payload) ==
    [ NoEffect EXCEPT !.path = "pending", !.queries = 1,
                      !.scheduled = <<SchedulePoll(payload)>> ]

\* OnFailed with the poll rescheduled after the notification as well
OnFailed_KeepsPolling(payload, conclusion, delivery) ==
    LET p == postFailureComment(payload.runUrl, payload.issueNumber, conclusion, delivery)
    IN  [ NoEffect EXCEPT !.path = "completed", !.queries = 1,
                          !.notified = <<conclusion>>, !.posted = p.posted,
                          !.scheduled = <<SchedulePoll(payload)>> ]

\* the run completed without success: notify; an exception of
\* postFailureComment would land in the catch of the status query, which
\* reschedules
OnFailed(payload, conclusion, delivery) ==
    LET p == postFailureComment(payload.runUrl, payload.issueNumber, conclusion, delivery)
    IN  [ NoEffect EXCEPT !.path = "completed", !.queries = 1,
                          !.notified = <<conclusion>>, !.posted = p.posted,
                          !.scheduled = IF p.threw THEN <<SchedulePoll(payload)>> ELSE <<>> ]

\* OnTimeout with the poll rescheduled after the notification
OnTimeout_KeepsPolling(payload, delivery) ==
    LET p == postFailureComment(payload.runUrl, payload.issueNumber, "timeout", delivery)
    IN  [ NoEffect EXCEPT !.path = "timeout", !.notified = <<"timeout">>,
                          !.posted = p.posted, !.threw = p.threw,
                          !.scheduled = <<SchedulePoll(payload)>> ]

\* the ceiling is passed: notify 'timeout' and return; nothing catches here
OnTimeout(payload, delivery) ==
    LET p == postFailureComment(payload.runUrl, payload.issueNumber, "timeout", delivery)
    IN  [ NoEffect EXCEPT !.path = "timeout", !.notified = <<"timeout">>,
                          !.posted = p.posted, !.threw = p.threw ]

\* checkWorkflowStatusResult asking for the run's status before it looks
\* at the ceiling: a run found completed with success ends silently
checkWorkflowStatusResult_StatusFirst(payload, env, delivery) ==
    LET elapsed == DateNow - payload.createdAt
        status == getWorkflowRunStatus(env)
    IN  IF env.auth = "ok" /\ env.query = "ok" /\ IsCompleted(status)
              /\ ~ShouldNotify(status.conclusion)
            THEN [ NoEffect EXCEPT !.path = "success", !.queries = 1 ]
        ELSE IF TimedOut(elapsed) THEN OnTimeout(payload, delivery)
        ELSE IF env.auth = "fault" THEN OnAuthFault(payload)
        ELSE IF env.query = "fault" THEN OnQueryFault(payload)
        ELSE IF IsCompleted(status)
            THEN OnFailed(payload, status.conclusion, delivery)
            ELSE OnPending(payload)

\* the poll handler run on `payload` at the current time
checkWorkflowStatusResult(payload, env, delivery) ==
    LET elapsed == DateNow - payload.createdAt
    IN  IF TimedOut(elapsed) THEN OnTimeout(payload, delivery)
        ELSE IF env.auth = "fault" THEN OnAuthFault(payload)
        ELSE IF env.query = "fault" THEN OnQueryFault(payload)
        ELSE
            LET status == getWorkflowRunStatus(env)
            IN  IF IsCompleted(status) THEN
                    IF ShouldNotify(status.conclusion)
                        THEN OnFailed(payload, status.conclusion, delivery)
                        ELSE [ NoEffect EXCEPT !.path = "success", !.queries = 1 ]
                ELSE OnPending(payload)

-----------------------------------------------------------------------------
(* State                                                                   *)

\* the triggers outstanding for the poll chain of trackRun invocation t
TriggersOf(t) == { s \in schedules : s.track = t }

TrackIds == 1 .. Len(trk)

NoOp == [ op |-> "none" ]

\* no direct-mode request has arrived
NoRequest == [ pc |-> "none" ]

\* RepoAgent.initialState; pendingWorkflows is the record's properties in
\* property order, each a key and its value
initialState == [ installationId |-> 0, pendingWorkflows |-> <<>> ]

Init ==
    /\ now = 0
    /\ schedules = {}
    /\ trk = <<>>
    /\ last = NoOp
    /\ paths = {}
    /\ state = initialState
    /\ regs = [ returned |-> <<>>, holder |-> <<>> ]
    /\ prev = NoOp
    /\ other = [ state |-> initialState, schedules |-> {}, regs |-> 0, tracks |-> 0 ]
    /\ req = NoRequest
    /\ hook = NoRequest
    /\ wf = <<>>
    /\ calls = [ serial |-> <<>>, awaiting |-> {} ]

-----------------------------------------------------------------------------
(* Operations of the agent                                                 *)

\* RepoAgent.trackRun(runId, runUrl, issueNumber)
trackRun_ResetsState(runId, runUrl, issueNumber) ==
    LET payload == [ runId |-> runId, runUrl |-> runUrl,
                     issueNumber |-> issueNumber, createdAt |-> DateNow ]
        t == Len(trk) + 1
    IN  /\ schedules' = schedules \cup { SchedulePoll(payload) @@ [ track |-> t ] }
        /\ trk' = Append(trk, [ runId |-> runId, runUrl |-> runUrl,
                                issueNumber |-> issueNumber, trackedAt |-> now,
                                phase |-> "polling", notified |-> 0, posted |-> 0 ])
        /\ state' = initialState
        /\ UNCHANGED now

trackRun(runId, runUrl, issueNumber) ==
    LET payload == [ runId |-> runId, runUrl |-> runUrl,
                     issueNumber |-> issueNumber, createdAt |-> DateNow ]
        t == Len(trk) + 1
    IN  /\ schedules' = schedules \cup { SchedulePoll(payload) @@ [ track |-> t ] }
        /\ trk' = Append(trk, [ runId |-> runId, runUrl |-> runUrl,
                                issueNumber |-> issueNumber, trackedAt |-> now,
                                phase |-> "polling", notified |-> 0, posted |-> 0 ])
        /\ UNCHANGED <<now, state>>

\* the phase of a poll chain after a handler run: still polling, ended on
\* success, notified of a failure, or notified of another ending
PhaseAfter(phase, r) ==
    IF r.notified = <<"failure">> THEN "failure"
    ELSE IF r.notified # <<>> THEN "ended"
    ELSE IF r.path = "success" THEN "success"
    ELSE phase

\* the one-shot trigger s fires: RepoAgent.checkWorkflowStatus(s.payload)
checkWorkflowStatus(s, env, delivery) ==
    LET r == checkWorkflowStatusResult(s.payload, env, delivery)
        t == s.track
    IN  /\ schedules' = (schedules \ {s})
                        \cup { r.scheduled[i] @@ [ track |-> t ] : i \in DOMAIN r.scheduled }
        /\ trk' = [ trk EXCEPT ![t] =
                      [ @ EXCEPT !.phase = PhaseAfter(@, r),
                                 !.notified = @ + Len(r.notified),
                                 !.posted = @ + Len(r.posted) ] ]
        /\ UNCHANGED <<now, state>>

-----------------------------------------------------------------------------
(* Environment: callers, scheduler and clock                               *)

\* the record of a handler run kept in `last`
Observed(s, env, delivery) ==
    LET r == checkWorkflowStatusResult(s.payload, env, delivery)
    IN  [ op |-> "checkWorkflowStatus", track |-> s.track, payload |-> s.payload,
          env |-> env, delivery |-> IF r.notified = <<>> THEN "" ELSE delivery,
          path |-> r.path, scheduled |-> r.scheduled, notified |-> r.notified,
          posted |-> r.posted, queries |-> r.queries, threw |-> r.threw ]

\* a first trackRun call arrives, within TrackWindow
Track ==
    /\ trk = <<>>
    /\ now <= TrackWindow
    /\ \E i \in TrackInputs : trackRun(i.runId, RunUrl(i.runId), i.issueNumber)
    /\ last' = [ op |-> "trackRun" ]
    /\ UNCHANGED <<paths, regs, prev, other, req, hook, wf, calls>>

\* the scheduler fires a due trigger
PollFire ==
    \E s \in schedules, env \in PollEnvs, delivery \in Deliveries :
        /\ s.callback = "checkWorkflowStatus"
        /\ s.time <= now
        /\ checkWorkflowStatus(s, env, delivery)
        /\ last' = Observed(s, env, delivery)
        /\ paths' = paths \cup { last'.path }
        /\ UNCHANGED <<regs, prev, other, req, hook, wf, calls>>

\* the clock advances one step, no trigger being left more than maxLate steps late
Advance(maxLate) ==
    /\ now + Step <= Horizon
    /\ schedules # {} \/ now < TrackWindow
    /\ \A s \in schedules : now + Step <= s.time + maxLate * Step
    /\ now' = now + Step
    /\ UNCHANGED <<schedules, trk, state, regs>>

Tick ==
    /\ Advance(MaxLateSteps)
    /\ last' = NoOp
    /\ UNCHANGED <<paths, prev, other, req, hook, wf, calls>>

Next == Track \/ PollFire \/ Tick

Spec == Init /\ [][Next]_vars

LiveSpec == Spec /\ WF_vars(Tick) /\ WF_vars(PollFire)

\* a trackRun call arrives within TrackWindow, for any run id (tracked before or not)
TrackAgain ==
    /\ Len(trk) < MaxTracks
    /\ now <= TrackWindow
    /\ \E i \in TrackInputs : trackRun(i.runId, RunUrl(i.runId), i.issueNumber)
    /\ UNCHANGED <<last, paths, regs, prev, other, req, hook, wf, calls>>

PollFireRuns ==
    \E s \in schedules, env \in PollEnvs, delivery \in Deliveries :
        /\ s.callback = "checkWorkflowStatus"
        /\ s.time <= now
        /\ checkWorkflowStatus(s, env, delivery)
        /\ UNCHANGED <<last, paths, regs, prev, other, req, hook, wf, calls>>

TickPunctual ==
    /\ Advance(0)
    /\ UNCHANGED <<last, paths, prev, other, req, hook, wf, calls>>

\* a punctual scheduler with the count of status queries kept: every poll
\* fires exactly when it is due; last holds the time of the poll and the
\* queries made so far, and stays over the clock steps
QueriedSoFar == IF last.op = "checkWorkflowStatus" THEN last.queried ELSE 0

PollFireOnTime ==
    \E s \in schedules, env \in PollEnvs, delivery \in Deliveries :
        /\ s.callback = "checkWorkflowStatus"
        /\ s.time = now
        /\ checkWorkflowStatus(s, env, delivery)
        /\ last' = Observed(s, env, delivery) @@
                       [ at |-> now,
                         queried |-> QueriedSoFar
                                     + checkWorkflowStatusResult(s.payload, env, delivery).queries ]
        /\ paths' = paths \cup { last'.path }
        /\ UNCHANGED <<regs, prev, other, req, hook, wf, calls>>

TickOnTime ==
    /\ Advance(0)
    /\ UNCHANGED <<last, paths, prev, other, req, hook, wf, calls>>

NextOnTime == Track \/ PollFireOnTime \/ TickOnTime

SpecOnTime == Init /\ [][NextOnTime]_vars

NextRuns == TrackAgain \/ PollFireRuns \/ TickPunctual

SpecRuns == Init /\ [][NextRuns]_vars

-----------------------------------------------------------------------------
(* Pending correlation entries (addPendingWorkflow, consumePendingWorkflow, *)
(* cleanupPendingWorkflow) and the installation id                          *)

\* number of addPendingWorkflow invocations
MaxRegs == 3

\* where pending entries alone are followed, the clock advances in steps of
\* half a cleanup window
PendingStep == PENDING_WORKFLOW_CLEANUP_SECONDS \div 2

\* addPendingWorkflow is called while now <= RegWindow
RegWindow == PendingStep

Actors == { "alice", "bob" }

\* the arguments of addPendingWorkflow: the triggering actor, the comment's
\* timestamp and the issue number
PendingInputs ==
    { [ actor |-> "alice", timestamp |-> "2024-01-01T00:00:00Z", issueNumber |-> 42 ],
      [ actor |-> "alice", timestamp |-> "2024-01-01T00:00:00Z", issueNumber |-> 43 ],
      [ actor |-> "alice", timestamp |-> "2024-01-01T00:05:00Z", issueNumber |-> 7 ],
      [ actor |-> "bob",   timestamp |-> "2024-01-01T00:00:00Z", issueNumber |-> 42 ] }

InstallationIds == { 101 }

\* the template literal `${actor}:${timestamp}`
KeyOf(actor, timestamp) == actor \o ":" \o timestamp

KeysOf(obj) == { obj[i].key : i \in DOMAIN obj }

\* obj[key]: the value under key, <<>> when the record has no such property
Lookup(obj, key) ==
    IF key \in KeysOf(obj)
        THEN << obj[CHOOSE i \in DOMAIN obj : obj[i].key = key].value >>
        ELSE << >>

\* { ...obj, [key]: value }: a copy in which key holds value; an existing
\* property keeps its place in the property order, a new one comes last
\* (no key is an array index: each holds a colon)
SetKey_KeepsOld(obj, key, value) ==
    IF key \in KeysOf(obj) THEN obj ELSE Append(obj, [ key |-> key, value |-> value ])

SetKey(obj, key, value) ==
    IF key \in KeysOf(obj)
        THEN [ i \in DOMAIN obj |->
                 IF obj[i].key = key THEN [ key |-> key, value |-> value ] ELSE obj[i] ]
        ELSE Append(obj, [ key |-> key, value |-> value ])

\* omitKey(obj, key): a copy without the property key
omitKey_KeepsAll(obj, key) == obj

omitKey_DropsActor(obj, key) ==
    LET gone == Lookup(obj, key)
        Keep(e) == gone = <<>> \/ e.value.actor # gone[1].actor
    IN  SelectSeq(obj, Keep)

omitKey(obj, key) ==
    LET Keep(e) == e.key # key
    IN  SelectSeq(obj, Keep)

\* Object.entries(obj).find(([, pending]) => pending.actor === actor): the
\* first property, in property order, whose value has this actor; <<>> if none
FindByActor_Newest(obj, actor) ==
    LET hits == { i \in DOMAIN obj : obj[i].value.actor = actor }
    IN  IF hits = {} THEN << >>
        ELSE << obj[CHOOSE i \in hits : \A j \in hits : obj[j].value.createdAt <= obj[i].value.createdAt
                                                        /\ (obj[j].value.createdAt = obj[i].value.createdAt => j <= i)] >>

FindByActor(obj, actor) ==
    LET hits == { i \in DOMAIN obj : obj[i].value.actor = actor }
    IN  IF hits = {} THEN << >>
        ELSE << obj[CHOOSE i \in hits : \A j \in hits : i <= j] >>

\* this.schedule(PENDING_WORKFLOW_CLEANUP_SECONDS, 'cleanupPendingWorkflow', { key })
\* adds a trigger of its own to the triggers S of the agent: nth tells apart
\* the triggers that agree in callback, payload and time
ScheduleCleanupIn(S, key) ==
    LET t == [ callback |-> "cleanupPendingWorkflow", payload |-> [ key |-> key ],
               time |-> now + PENDING_WORKFLOW_CLEANUP_SECONDS ]
        same == { s \in S : s.callback = t.callback /\ s.payload = t.payload
                                                    /\ s.time = t.time }
    IN  t @@ [ nth |-> Cardinality(same) + 1 ]

\* ScheduleCleanup with the trigger due after half the window
ScheduleCleanup_Sooner(key) ==
    [ ScheduleCleanupIn(schedules, key) EXCEPT !.time = now + PendingStep ]

ScheduleCleanup_OncePerKey(key) ==
    LET t == [ callback |-> "cleanupPendingWorkflow", payload |-> [ key |-> key ],
               time |-> now + PENDING_WORKFLOW_CLEANUP_SECONDS, nth |-> 1 ]
        old == { s \in schedules : s.callback = t.callback /\ s.payload = t.payload }
    IN  IF old = {} THEN t ELSE CHOOSE s \in old : TRUE

ScheduleCleanup(key) == ScheduleCleanupIn(schedules, key)

\* the registration whose entry is held under key: the latest one of that key
RegOf(key) == regs.holder[key]

\* RepoAgent.setInstallationId(id)
setInstallationId(id) ==
    /\ state' = [ state EXCEPT !.installationId = id ]
    /\ UNCHANGED <<now, schedules, trk, regs>>

\* the PendingWorkflow that addPendingWorkflow stores
NewPending_IssueAsCreatedAt(actor, timestamp, issueNumber) ==
    [ issueNumber |-> DateNow, actor |-> actor,
      timestamp |-> timestamp, createdAt |-> issueNumber ]

NewPending(actor, timestamp, issueNumber) ==
    [ issueNumber |-> issueNumber, actor |-> actor,
      timestamp |-> timestamp, createdAt |-> DateNow ]

\* RepoAgent.addPendingWorkflow(actor, timestamp, issueNumber)
addPendingWorkflow(actor, timestamp, issueNumber) ==
    LET key == KeyOf(actor, timestamp)
        pending == NewPending(actor, timestamp, issueNumber)
    IN  /\ state' = [ state EXCEPT !.pendingWorkflows = SetKey(@, key, pending) ]
        /\ schedules' = schedules \cup { ScheduleCleanup(key) }
        /\ regs' = [ returned |-> Append(regs.returned, 0),
                     holder |-> (key :> Len(regs.returned) + 1) @@ regs.holder ]
        /\ UNCHANGED <<now, trk>>

\* what consumePendingWorkflow(actor) returns (<<>> is null) and the pending
\* map it leaves; destructuring the entry raises a TypeError if there is none
OnNoEntry_Destructures(obj) == [ result |-> << >>, pendingWorkflows |-> obj, threw |-> TRUE ]

OnNoEntry(obj) == [ result |-> << >>, pendingWorkflows |-> obj, threw |-> FALSE ]

consumePendingWorkflowResult(obj, actor) ==
    LET entry == FindByActor(obj, actor)
    IN  IF entry = << >> THEN OnNoEntry(obj)
        ELSE [ result |-> << entry[1].value >>,
               pendingWorkflows |-> omitKey(obj, entry[1].key),
               threw |-> FALSE ]

\* RepoAgent.consumePendingWorkflow(actor)
consumePendingWorkflow(actor) ==
    LET entry == FindByActor(state.pendingWorkflows, actor)
        r == consumePendingWorkflowResult(state.pendingWorkflows, actor)
    IN  /\ state' = [ state EXCEPT !.pendingWorkflows = r.pendingWorkflows ]
        /\ regs' = IF entry = << >> THEN regs
                   ELSE [ regs EXCEPT !.returned[RegOf(entry[1].key)] = @ + Len(r.result) ]
        /\ UNCHANGED <<now, schedules, trk>>

\* the pending map cleanupPendingWorkflow({ key }) leaves
cleanupResult_Keeps(obj, key) == obj

cleanupResult_ElseFirst(obj, key) ==
    IF Lookup(obj, key) # << >> THEN omitKey(obj, key)
    ELSE IF obj = << >> THEN obj ELSE Tail(obj)

cleanupResult(obj, key) ==
    IF Lookup(obj, key) # << >> THEN omitKey(obj, key) ELSE obj

\* the one-shot trigger s fires: RepoAgent.cleanupPendingWorkflow(s.payload)
cleanupPendingWorkflow(s) ==
    /\ state' = [ state EXCEPT !.pendingWorkflows = cleanupResult(@, s.payload.key) ]
    /\ schedules' = schedules \ {s}
    /\ UNCHANGED <<now, trk, regs>>

\* the record of an operation kept in `last`: its name and arguments, and the
\* agent's state and triggers before it ran
Before(op, args) ==
    [ op |-> op, before |-> state, schedBefore |-> schedules ] @@ args

\* runWorkflowMode records the installation id, before it registers a pending
\* entry
SetInstallation ==
    \E id \in InstallationIds :
        /\ Len(regs.returned) < MaxRegs
        /\ now <= RegWindow
        /\ setInstallationId(id)
        /\ last' = Before("setInstallationId", [ id |-> id ])
        /\ prev' = last
        /\ UNCHANGED <<paths, other, req, hook, wf, calls>>

\* runWorkflowMode registers a pending entry, within RegWindow
Register ==
    /\ Len(regs.returned) < MaxRegs
    /\ now <= RegWindow
    /\ \E i \in PendingInputs :
        /\ addPendingWorkflow(i.actor, i.timestamp, i.issueNumber)
        /\ last' = Before("addPendingWorkflow", i @@ [ threw |-> FALSE ])
    /\ prev' = last
    /\ UNCHANGED <<paths, other, req, hook, wf, calls>>

\* a workflow-run event of some actor asks for its pending entry
Consume ==
    \E actor \in Actors :
        /\ consumePendingWorkflow(actor)
        /\ LET r == consumePendingWorkflowResult(state.pendingWorkflows, actor)
           IN  last' = Before("consumePendingWorkflow",
                              [ actor |-> actor, result |-> r.result, threw |-> r.threw ])
        /\ prev' = last
        /\ UNCHANGED <<paths, other, req, hook, wf, calls>>

\* the scheduler fires a due cleanup trigger
CleanupFire ==
    \E s \in schedules :
        /\ s.callback = "cleanupPendingWorkflow"
        /\ s.time <= now
        /\ cleanupPendingWorkflow(s)
        /\ last' = Before("cleanupPendingWorkflow",
                          [ key |-> s.payload.key, trigger |-> s, threw |-> FALSE ])
        /\ prev' = last
        /\ UNCHANGED <<paths, other, req, hook, wf, calls>>

\* the clock advances one step, no trigger being left late
TickPending ==
    /\ schedules # {} \/ now < RegWindow
    /\ \A s \in schedules : now + PendingStep <= s.time
    /\ now' = now + PendingStep
    /\ last' = NoOp
    /\ prev' = NoOp
    /\ UNCHANGED <<schedules, trk, state, regs, paths, other, req, hook, wf, calls>>

NextPending == SetInstallation \/ Register \/ Consume \/ CleanupFire \/ TickPending

SpecPending == Init /\ [][NextPending]_vars

\* a tracked run beside pending entries: the operations on pending entries
\* and one trackRun call arrive within TrackWindow, the scheduler is punctual
\* and the history variables last, paths and prev are left alone

\* number of addPendingWorkflow invocations beside a tracked run
MaxTrackedRegs == 1

SetInstallationTracked ==
    \E id \in InstallationIds :
        /\ now <= TrackWindow
        /\ setInstallationId(id)
        /\ UNCHANGED <<last, paths, prev, other, req, hook, wf, calls>>

RegisterTracked ==
    /\ Len(regs.returned) < MaxTrackedRegs
    /\ now <= TrackWindow
    /\ \E i \in PendingInputs : addPendingWorkflow(i.actor, i.timestamp, i.issueNumber)
    /\ UNCHANGED <<last, paths, prev, other, req, hook, wf, calls>>

ConsumeTracked ==
    \E actor \in Actors :
        /\ consumePendingWorkflow(actor)
        /\ UNCHANGED <<last, paths, prev, other, req, hook, wf, calls>>

CleanupFireTracked ==
    \E s \in schedules :
        /\ s.callback = "cleanupPendingWorkflow"
        /\ s.time <= now
        /\ cleanupPendingWorkflow(s)
        /\ UNCHANGED <<last, paths, prev, other, req, hook, wf, calls>>

TrackOnce ==
    /\ trk = <<>>
    /\ now <= TrackWindow
    /\ \E i \in TrackInputs : trackRun(i.runId, RunUrl(i.runId), i.issueNumber)
    /\ UNCHANGED <<last, paths, regs, prev, other, req, hook, wf, calls>>

NextTracked ==
    \/ SetInstallationTracked \/ RegisterTracked \/ ConsumeTracked \/ CleanupFireTracked
    \/ TrackOnce \/ PollFireRuns \/ TickPunctual

SpecTracked == Init /\ [][NextTracked]_vars

\* trackers of two repositories: the agent of a repository is found by its
\* name; `state`, `schedules` are those of ThisRepo's agent, `other` is the
\* agent of the other name; the scheduler is punctual, last records the
\* operation just run and the repository it was addressed to

\* number of addPendingWorkflow invocations per repository
MaxRepoRegs == 1

ThisRepo == [ owner |-> "o", repo |-> "r" ]

Repos == { ThisRepo, [ owner |-> "o", repo |-> "r2" ] }

\* with two repositories the calls arrive at time 0 and the clock stops
\* when the cleanup triggers have fired
RepoHorizon == PENDING_WORKFLOW_CLEANUP_SECONDS + 2 * Step

\* the arguments of addPendingWorkflow and of trackRun used with two repositories
RepoPendingInputs == { i \in PendingInputs : i.issueNumber = 42 }

RepoTrackInputs == { i \in TrackInputs : i.runId = 7 }

\* the name of a repository's agent: `${owner}/${repo}`
AgentName_OwnerOnly(owner, repo) == owner

AgentName(owner, repo) == owner \o "/" \o repo

\* getAgentByName(env.REPO_AGENT, name): the agent instance of that name
getAgentByName(name) ==
    IF name = AgentName(ThisRepo.owner, ThisRepo.repo) THEN "this" ELSE "other"

AgentOf(rp) == getAgentByName(AgentName(rp.owner, rp.repo))

\* the operations of RepoAgent, run by the other agent
other_setInstallationId(id) == [ other EXCEPT !.state.installationId = id ]

other_addPendingWorkflow(actor, timestamp, issueNumber) ==
    LET key == KeyOf(actor, timestamp)
        pending == NewPending(actor, timestamp, issueNumber)
    IN  [ other EXCEPT !.state.pendingWorkflows = SetKey(@, key, pending),
                       !.schedules = @ \cup { ScheduleCleanupIn(other.schedules, key) },
                       !.regs = @ + 1 ]

other_consumePendingWorkflow(actor) ==
    [ other EXCEPT !.state.pendingWorkflows =
                       consumePendingWorkflowResult(@, actor).pendingWorkflows ]

other_cleanupPendingWorkflow(s) ==
    [ other EXCEPT !.state.pendingWorkflows = cleanupResult(@, s.payload.key),
                   !.schedules = @ \ {s} ]

other_trackRun(runId, runUrl, issueNumber) ==
    LET payload == [ runId |-> runId, runUrl |-> runUrl,
                     issueNumber |-> issueNumber, createdAt |-> DateNow ]
    IN  [ other EXCEPT !.schedules = @ \cup { SchedulePoll(payload) @@ [ track |-> other.tracks + 1 ] },
                       !.tracks = @ + 1 ]

other_checkWorkflowStatus(s, env, delivery) ==
    LET r == checkWorkflowStatusResult(s.payload, env, delivery)
    IN  [ other EXCEPT !.schedules =
              (@ \ {s}) \cup { r.scheduled[i] @@ [ track |-> s.track ] : i \in DOMAIN r.scheduled } ]

\* the record kept in `last`: the repository the call or the fired trigger
\* was addressed to
Addressed(rp) == [ op |-> "call", repo |-> rp ]

ThisAlone == UNCHANGED other

OtherAlone == UNCHANGED <<now, schedules, trk, state, regs>>

RepoSetInstallation ==
    \E rp \in Repos, id \in InstallationIds :
        /\ now = 0
        /\ IF AgentOf(rp) = "this"
               THEN setInstallationId(id) /\ ThisAlone
               ELSE other' = other_setInstallationId(id) /\ OtherAlone
        /\ last' = Addressed(rp)
        /\ UNCHANGED <<paths, prev, req, hook, wf, calls>>

\* the caller sets the installation id before it registers (workflow.ts 72-73)
RepoRegister ==
    \E rp \in Repos, i \in RepoPendingInputs :
        /\ now = 0
        /\ IF AgentOf(rp) = "this"
               THEN /\ Len(regs.returned) < MaxRepoRegs
                    /\ state.installationId \in InstallationIds
                    /\ addPendingWorkflow(i.actor, i.timestamp, i.issueNumber)
                    /\ ThisAlone
               ELSE /\ other.regs < MaxRepoRegs
                    /\ other.state.installationId \in InstallationIds
                    /\ other' = other_addPendingWorkflow(i.actor, i.timestamp, i.issueNumber)
                    /\ OtherAlone
        /\ last' = Addressed(rp)
        /\ UNCHANGED <<paths, prev, req, hook, wf, calls>>

RepoConsume ==
    \E rp \in Repos, actor \in Actors :
        /\ IF AgentOf(rp) = "this"
               THEN consumePendingWorkflow(actor) /\ ThisAlone
               ELSE other' = other_consumePendingWorkflow(actor) /\ OtherAlone
        /\ last' = Addressed(rp)
        /\ UNCHANGED <<paths, prev, req, hook, wf, calls>>

RepoTrack ==
    \E rp \in Repos, i \in RepoTrackInputs :
        /\ now = 0
        /\ IF AgentOf(rp) = "this"
               THEN /\ trk = <<>>
                    /\ trackRun(i.runId, RunUrl(i.runId), i.issueNumber)
                    /\ UNCHANGED regs
                    /\ ThisAlone
               ELSE /\ other.tracks = 0
                    /\ other' = other_trackRun(i.runId, RunUrl(i.runId), i.issueNumber)
                    /\ OtherAlone
        /\ last' = Addressed(rp)
        /\ UNCHANGED <<paths, prev, req, hook, wf, calls>>

\* the scheduler fires a due trigger of ThisRepo's agent
ThisFire ==
    \E s \in schedules :
        /\ s.time <= now
        /\ IF s.callback = "cleanupPendingWorkflow"
               THEN cleanupPendingWorkflow(s)
               ELSE \E env \in PollEnvs, delivery \in Deliveries :
                        checkWorkflowStatus(s, env, delivery) /\ UNCHANGED regs
        /\ ThisAlone
        /\ last' = Addressed(ThisRepo)
        /\ UNCHANGED <<paths, prev, req, hook, wf, calls>>

\* the scheduler fires a due trigger of the other agent
OtherFire ==
    \E rp \in Repos \ {ThisRepo}, s \in other.schedules :
        /\ s.time <= now
        /\ IF s.callback = "cleanupPendingWorkflow"
               THEN other' = other_cleanupPendingWorkflow(s)
               ELSE \E env \in PollEnvs, delivery \in Deliveries :
                        other' = other_checkWorkflowStatus(s, env, delivery)
        /\ OtherAlone
        /\ last' = Addressed(rp)
        /\ UNCHANGED <<paths, prev, req, hook, wf, calls>>

\* the clock advances one step, up to RepoHorizon, no trigger of either
\* agent being left late
TickRepos ==
    /\ now + Step <= RepoHorizon
    /\ schedules \cup other.schedules # {}
    /\ \A s \in schedules \cup other.schedules : now + Step <= s.time
    /\ now' = now + Step
    /\ last' = NoOp
    /\ UNCHANGED <<schedules, trk, state, regs, paths, prev, other, req, hook, wf, calls>>

NextRepos ==
    \/ RepoSetInstallation \/ RepoRegister \/ RepoConsume \/ RepoTrack
    \/ ThisFire \/ OtherFire \/ TickRepos

SpecRepos == Init /\ [][NextRepos]_vars

----------------------------------------------------------------------------
(* The direct-mode orchestrator: processRequest (agent.ts 381-521). The   *)
(* request is at one await at a time (req.pc); req.log lists the calls it *)
(* has made to GitHub and to the agent, in order, with their outcome.     *)

maxRetries == 3
RetryPauseMs == 15000

\* the permission level GitHub reports for the actor, or a failed lookup
Lookups == {"admin", "write", "read", "none", "fault"}

hasWriteAccess_FailsOpen(lookup) == lookup \in {"admin", "write", "fault"}

\* hasWriteAccess: a failed lookup is caught and answered with false
hasWriteAccess(lookup) ==
    IF lookup = "fault" THEN FALSE ELSE lookup \in {"admin", "write"}

\* the messages of the errors the agent invocation throws, and the message
\* of a failed GitHub call
ErrorMessages == {"sandbox crashed", "rate limited"}
ApiError == "Not Found"

\* what runOpencodeSandbox resolves to: changedFiles and newBranch may be
\* undefined (<<>>), else they hold one value
SandboxResults ==
    [ response : {"done"},
      changedFiles : { <<>>, << <<>> >>, << <<"a.ts">> >> },
      newBranch : { <<>>, <<"bonk/fix">> } ]

\* the pull request fetchPullRequest returns: its head and base repository
PullRequests == [ headRepository : {"o/r", "fork/r"}, baseRepository : {"o/r"} ]
PrNumbers == {"17"}

Placeholder == <<"Bonk is working on it...">>
ForkBody == <<"Fork PRs are not supported.">>
\* the message is set in a fenced code block below the heading
FailedBody(message) == <<"Bonk failed", message>>
PrLinkBody(prNumber) == <<"Bonk created PR:", "https://github.com/o/r/pull/", prNumber>>

\* formatResponse puts the agent's response and the changed files in the body
formatResponse(response, changedFiles) ==
    <<"response:", response>> \o (IF changedFiles = <<>> THEN <<>> ELSE changedFiles[1])

Called(log, call, body, ok) == Append(log, [ call |-> call, body |-> body, ok |-> ok ])

createComment(log, body, ok) == Called(log, "createComment", body, ok)

updateComment_Creates(log, body, ok) == Called(log, "createComment", body, ok)

updateComment(log, body, ok) == Called(log, "updateComment", body, ok)

IsForkPR_Never(prData) == FALSE

\* line 430: the head repository is not the base repository
IsForkPR(prData) == prData.headRepository # prData.baseRepository

LoopContinues_OneMore(attempt) == attempt <= maxRetries + 1

\* line 448: for (let attempt = 1; attempt <= maxRetries; attempt++)
LoopContinues(attempt) == attempt <= maxRetries

ShouldPause_Always(attempt) == TRUE

\* line 470: if (attempt < maxRetries)
ShouldPause(attempt) == attempt < maxRetries

CaughtAttempt_KeepsFirst(lastError, message) ==
    IF lastError = <<>> THEN <<message>> ELSE lastError

\* line 467: lastError = error
CaughtAttempt(lastError, message) == <<message>>

Truthy(opt) == opt # <<>> /\ opt[1] # ""

ShouldOpenPR_IgnoresBranch(isPullRequest, result) ==
    /\ ~isPullRequest
    /\ result.changedFiles # <<>>
    /\ Len(result.changedFiles[1]) > 0

\* line 494: the condition under which a pull request is created
ShouldOpenPR(isPullRequest, result) ==
    /\ ~isPullRequest
    /\ result.changedFiles # <<>>
    /\ Len(result.changedFiles[1]) > 0
    /\ Truthy(result.newBranch)

\* a request as processRequest receives it
NewRequest(isPullRequest) ==
    [ pc |-> "createOctokit", isPullRequest |-> isPullRequest, lookup |-> <<>>,
      prData |-> <<>>, attempt |-> 1, lastError |-> <<>>, result |-> <<>>,
      prNumber |-> <<>>, error |-> <<>>, log |-> <<>> ]

\* an exception thrown inside the try block lands in the catch of line 510
Caught(r, message) == [ r EXCEPT !.pc = "catch", !.error = <<message>> ]

RequestAlone ==
    UNCHANGED <<now, schedules, trk, last, paths, state, regs, prev, other, hook, wf, calls>>

\* lines 381-391: a webhook handler calls processRequest; the API clients
\* are built, which may throw
Start ==
    /\ req.pc = "none"
    /\ \E isPullRequest \in BOOLEAN, ok \in BOOLEAN :
           req' = [ NewRequest(isPullRequest) EXCEPT
                        !.pc = IF ok THEN "hasWriteAccess" ELSE "threw" ]
    /\ RequestAlone

\* lines 394-398
CheckPermission ==
    /\ req.pc = "hasWriteAccess"
    /\ \E lookup \in Lookups :
           req' = [ req EXCEPT !.lookup = <<lookup>>,
                        !.pc = IF hasWriteAccess(lookup) THEN "createComment" ELSE "returned" ]
    /\ RequestAlone

\* lines 401-407: outside the try block
CreatePlaceholder ==
    /\ req.pc = "createComment"
    /\ \E ok \in BOOLEAN :
           req' = [ req EXCEPT !.log = createComment(@, Placeholder, ok),
                        !.pc = IF ok THEN "context" ELSE "threw" ]
    /\ RequestAlone

\* lines 412-441: repository, token, images, then the pull request or issue
BuildContext ==
    /\ req.pc = "context"
    /\ \E ok \in BOOLEAN, prData \in PullRequests :
           req' = IF ~ok THEN Caught(req, ApiError)
                  ELSE IF ~req.isPullRequest THEN [ req EXCEPT !.pc = "attempt" ]
                  ELSE [ req EXCEPT !.prData = <<prData>>,
                             !.pc = IF IsForkPR(prData) THEN "forkUpdate" ELSE "attempt" ]
    /\ RequestAlone

\* lines 431-432
RefuseFork ==
    /\ req.pc = "forkUpdate"
    /\ \E ok \in BOOLEAN :
           LET r == [ req EXCEPT !.log = updateComment(@, ForkBody, ok) ]
           IN  req' = IF ok THEN [ r EXCEPT !.pc = "returned" ] ELSE Caught(r, ApiError)
    /\ RequestAlone

\* lines 448-474: one pass of the retry loop
AttemptSucceeds ==
    /\ req.pc = "attempt"
    /\ \E result \in SandboxResults :
           req' = [ req EXCEPT !.log = Called(@, "runOpencodeSandbox", <<>>, TRUE),
                        !.result = <<result>>, !.lastError = <<>>, !.pc = "respond" ]
    /\ RequestAlone

AttemptFails ==
    /\ req.pc = "attempt"
    /\ \E message \in ErrorMessages :
           LET invoked == Called(req.log, "runOpencodeSandbox", <<message>>, FALSE)
           IN  req' = [ req EXCEPT
                   !.log = IF ShouldPause(req.attempt)
                               THEN Called(invoked, "setTimeout", <<RetryPauseMs>>, TRUE)
                               ELSE invoked,
                   !.lastError = CaughtAttempt(@, message),
                   !.attempt = @ + 1,
                   !.pc = IF LoopContinues(req.attempt + 1) THEN "attempt" ELSE "exhausted" ]
    /\ RequestAlone

\* lines 476-486
ReportExhausted ==
    /\ req.pc = "exhausted"
    /\ \E ok \in BOOLEAN :
           LET r == [ req EXCEPT !.log = updateComment(@, FailedBody(req.lastError[1]), ok) ]
           IN  req' = IF ok THEN [ r EXCEPT !.pc = "returned" ] ELSE Caught(r, ApiError)
    /\ RequestAlone

\* lines 489-494
ReportResult ==
    /\ req.pc = "respond"
    /\ \E ok \in BOOLEAN :
           LET result == req.result[1]
               response == formatResponse(result.response, result.changedFiles)
               r == [ req EXCEPT !.log = updateComment(@, response, ok) ]
           IN  req' = IF ~ok THEN Caught(r, ApiError)
                      ELSE [ r EXCEPT !.pc = IF ShouldOpenPR(req.isPullRequest, result)
                                                THEN "createPullRequest" ELSE "returned" ]
    /\ RequestAlone

\* lines 496-504
OpenPullRequest ==
    /\ req.pc = "createPullRequest"
    /\ \E ok \in BOOLEAN, prNumber \in PrNumbers :
           LET r == [ req EXCEPT !.log = Called(@, "createPullRequest", req.result[1].newBranch, ok) ]
           IN  req' = IF ok THEN [ r EXCEPT !.prNumber = <<prNumber>>, !.pc = "link" ]
                      ELSE Caught(r, ApiError)
    /\ RequestAlone

\* lines 506-508
ReportPullRequest ==
    /\ req.pc = "link"
    /\ \E ok \in BOOLEAN :
           LET r == [ req EXCEPT !.log = updateComment(@, PrLinkBody(req.prNumber[1]), ok) ]
           IN  req' = IF ok THEN [ r EXCEPT !.pc = "returned" ] ELSE Caught(r, ApiError)
    /\ RequestAlone

\* lines 510-520: the catch block; an error thrown here leaves processRequest
CatchAll ==
    /\ req.pc = "catch"
    /\ \E ok \in BOOLEAN :
           req' = [ req EXCEPT !.log = updateComment(@, FailedBody(req.error[1]), ok),
                        !.pc = IF ok THEN "returned" ELSE "threw" ]
    /\ RequestAlone

NextRequest ==
    \/ Start \/ CheckPermission \/ CreatePlaceholder \/ BuildContext \/ RefuseFork
    \/ AttemptSucceeds \/ AttemptFails \/ ReportExhausted \/ ReportResult
    \/ OpenPullRequest \/ ReportPullRequest \/ CatchAll

SpecRequest == Init /\ [][NextRequest]_vars

----------------------------------------------------------------------------
(* The webhook entry: handleWebhook (agent.ts 243-279), verifyWebhook     *)
(* (github.ts 108-124) and the three event handlers (agent.ts 281-358).   *)

EventNames ==
    {"issue_comment", "pull_request_review_comment", "pull_request_review", "push"}

\* a request to POST /webhooks: a header is absent (<<>>) or holds a
\* string; the signature "sha256=good" is the HMAC of the body under the
\* webhook secret, any other is not; the body is JSON or is not
WebhookRequests ==
    [ id : { <<>>, <<"d-1">> },
      name : { <<>> } \cup { <<n>> : n \in EventNames },
      signature : { <<>>, <<"">>, <<"sha256=good">>, <<"sha256=bad">> },
      body : { "json", "garbage" } ]

\* webhooks.verify(body, signature) resolves to true for the matching
\* signature; for another it resolves to false, or throws on malformed input
VerifyOutcomes(request) ==
    IF request.signature = <<"sha256=good">> THEN {"true"} ELSE {"false", "throws"}

\* verifyWebhook: null without the three headers, null when verify or
\* JSON.parse throws, else the event; what verify resolves to is not read
verifyWebhook(request, verified) ==
    IF ~Truthy(request.id) \/ ~Truthy(request.name) \/ ~Truthy(request.signature)
        THEN <<>>
    ELSE IF verified = "throws" \/ request.body = "garbage"
        THEN <<>>
    ELSE << [ id |-> request.id[1], name |-> request.name[1] ] >>

\* the switch of handleWebhook
HandlerOf(name) ==
    CASE name = "issue_comment" -> <<"handleIssueComment">>
      [] name = "pull_request_review_comment" -> <<"handlePRReviewComment">>
      [] name = "pull_request_review" -> <<"handlePRReview">>
      [] OTHER -> <<>>

\* how a handler gets on before processRequest: the payload names no
\* installation, a GitHub call throws, the event is not a request, or it is
HandlerOutcomes == {"no installation", "throws", "not parsed", "processRequest"}

HookAlone ==
    UNCHANGED <<now, schedules, trk, last, paths, state, regs, prev, other, req, wf, calls>>

\* a request arrives at POST /webhooks
Deliver ==
    /\ hook.pc = "none"
    /\ \E request \in WebhookRequests :
           hook' = [ pc |-> "verifyWebhook", request |-> request, verified |-> <<>>,
                     event |-> <<>>, handler |-> <<>>, response |-> <<>> ]
    /\ HookAlone

\* agent.ts 247-251
VerifyWebhook ==
    /\ hook.pc = "verifyWebhook"
    /\ \E verified \in VerifyOutcomes(hook.request) :
           LET event == verifyWebhook(hook.request, verified)
           IN  hook' = IF event = <<>>
                           THEN [ hook EXCEPT !.response = <<401>>, !.pc = "responded" ]
                           ELSE [ hook EXCEPT !.verified = <<verified>>, !.event = event,
                                      !.pc = "dispatch" ]
    /\ HookAlone

\* agent.ts 256-272
Dispatch ==
    /\ hook.pc = "dispatch"
    /\ LET handler == HandlerOf(hook.event[1].name)
       IN  hook' = IF handler = <<>>
                       THEN [ hook EXCEPT !.response = <<200>>, !.pc = "responded" ]
                       ELSE [ hook EXCEPT !.handler = handler, !.pc = "handler" ]
    /\ HookAlone

\* agent.ts 281-292 (and 304-320, 332-348): the handler up to processRequest
HandleEvent ==
    /\ hook.pc = "handler"
    /\ \E outcome \in HandlerOutcomes :
           hook' = [ hook EXCEPT !.pc =
                         CASE outcome = "throws" -> "handlerThrew"
                           [] outcome = "processRequest" -> "processRequest"
                           [] OTHER -> "handlerReturned" ]
    /\ HookAlone

\* agent.ts 294-301: the handler calls processRequest
HookStart == hook.pc = "processRequest" /\ Start

\* agent.ts 274-278: 200 when the handler returned, 500 when it threw
Respond ==
    /\ \/ hook.pc \in {"handlerThrew", "handlerReturned"}
       \/ hook.pc = "processRequest" /\ req.pc \in {"returned", "threw"}
    /\ hook' = [ hook EXCEPT !.pc = "responded",
                     !.response = IF hook.pc = "handlerThrew" \/ req.pc = "threw"
                                      THEN <<500>> ELSE <<200>> ]
    /\ HookAlone

NextWebhook ==
    \/ Deliver \/ VerifyWebhook \/ Dispatch \/ HandleEvent \/ HookStart \/ Respond
    \/ CheckPermission \/ CreatePlaceholder \/ BuildContext \/ RefuseFork
    \/ AttemptSucceeds \/ AttemptFails \/ ReportExhausted \/ ReportResult
    \/ OpenPullRequest \/ ReportPullRequest \/ CatchAll

SpecWebhook == Init /\ [][NextWebhook]_vars

----------------------------------------------------------------------------
(* The agent's calls interleaved at their awaits. setInstallationId,      *)
(* consumePendingWorkflow and cleanupPendingWorkflow hold no await;       *)
(* addPendingWorkflow awaits this.schedule after its setState, so another *)
(* call may run before the cleanup trigger is in place.                   *)

MaxAwaitCalls == 3

\* the arguments used here: one key written twice, and a second actor
AwaitInputs == { i \in PendingInputs : i.issueNumber # 7 }
AwaitInstallationIds == InstallationIds \cup { 102 }

\* the call enters calls.serial when it reads and writes this.state
Serialized(op, arg, result) ==
    Append(calls.serial, [ op |-> op, arg |-> arg, at |-> now, result |-> result ])

AwaitAlone == UNCHANGED <<last, paths, prev, other, req, hook, wf>>

AwaitSetInstallation ==
    /\ Len(calls.serial) < MaxAwaitCalls
    /\ now <= RegWindow
    /\ \E id \in AwaitInstallationIds :
           /\ setInstallationId(id)
           /\ calls' = [ calls EXCEPT
                             !.serial = Serialized("setInstallationId", [ id |-> id ], <<>>) ]
    /\ AwaitAlone

\* RegisterBegin writing the new entry into the state as it was at
\* construction: the entries added since are lost
RegisterBegin_LostUpdate ==
    /\ Len(calls.serial) < MaxAwaitCalls
    /\ now <= RegWindow
    /\ \E i \in AwaitInputs :
           LET key == KeyOf(i.actor, i.timestamp)
               pending == NewPending(i.actor, i.timestamp, i.issueNumber)
               t == ScheduleCleanupIn(schedules \cup calls.awaiting, key)
           IN  /\ state' = [ state EXCEPT !.pendingWorkflows =
                                 SetKey(initialState.pendingWorkflows, key, pending) ]
               /\ regs' = [ returned |-> Append(regs.returned, 0),
                            holder |-> (key :> Len(regs.returned) + 1) @@ regs.holder ]
               /\ calls' = [ serial |-> Serialized("addPendingWorkflow", i, <<>>),
                             awaiting |-> calls.awaiting \cup {t} ]
    /\ UNCHANGED <<now, schedules, trk>>
    /\ AwaitAlone

\* addPendingWorkflow up to its await (agent.ts 52-67): the entry is
\* written, this.schedule is called and the call is suspended
RegisterBegin ==
    /\ Len(calls.serial) < MaxAwaitCalls
    /\ now <= RegWindow
    /\ \E i \in AwaitInputs :
           LET key == KeyOf(i.actor, i.timestamp)
               pending == NewPending(i.actor, i.timestamp, i.issueNumber)
               t == ScheduleCleanupIn(schedules \cup calls.awaiting, key)
           IN  /\ state' = [ state EXCEPT !.pendingWorkflows = SetKey(@, key, pending) ]
               /\ regs' = [ returned |-> Append(regs.returned, 0),
                            holder |-> (key :> Len(regs.returned) + 1) @@ regs.holder ]
               /\ calls' = [ serial |-> Serialized("addPendingWorkflow", i, <<>>),
                             awaiting |-> calls.awaiting \cup {t} ]
    /\ UNCHANGED <<now, schedules, trk>>
    /\ AwaitAlone

\* this.schedule resolves (agent.ts 67): the trigger is in place
ScheduleResume ==
    /\ \E t \in calls.awaiting :
           /\ schedules' = schedules \cup {t}
           /\ calls' = [ calls EXCEPT !.awaiting = @ \ {t} ]
    /\ UNCHANGED <<now, trk, state, regs>>
    /\ AwaitAlone

AwaitConsume ==
    /\ Len(calls.serial) < MaxAwaitCalls
    /\ \E actor \in Actors :
           /\ consumePendingWorkflow(actor)
           /\ calls' = [ calls EXCEPT !.serial =
                  Serialized("consumePendingWorkflow", [ actor |-> actor ],
                             consumePendingWorkflowResult(state.pendingWorkflows, actor).result) ]
    /\ AwaitAlone

AwaitCleanupFire ==
    /\ \E s \in schedules :
           /\ s.callback = "cleanupPendingWorkflow"
           /\ s.time <= now
           /\ cleanupPendingWorkflow(s)
           /\ calls' = [ calls EXCEPT !.serial =
                  Serialized("cleanupPendingWorkflow", [ key |-> s.payload.key ], <<>>) ]
    /\ AwaitAlone

\* the clock advances one step, no trigger in place being left late
AwaitTick ==
    /\ now + PendingStep <= RegWindow + PENDING_WORKFLOW_CLEANUP_SECONDS
    /\ \A s \in schedules : now + PendingStep <= s.time
    /\ now' = now + PendingStep
    /\ UNCHANGED <<schedules, trk, state, regs, calls>>
    /\ AwaitAlone

NextAwait ==
    \/ AwaitSetInstallation \/ RegisterBegin \/ ScheduleResume \/ AwaitConsume
    \/ AwaitCleanupFire \/ AwaitTick

SpecAwait == Init /\ [][NextAwait]_vars

-----------------------------------------------------------------------------
(* Workflow mode: runWorkflowMode and createWorkflowPR (src/src/workflow.ts *)
(* and the variant of the file in src/unnamed/part_000). Each call is at   *)
(* one await at a time (pc); its log lists the calls it has made to GitHub *)
(* and to the tracker, in order, with their outcome. The calls interleave  *)
(* at their awaits.                                                        *)

MaxModeCalls == 2

WORKFLOW_FILE_PATH == ".github/workflows/bonk.yml"
WORKFLOW_BRANCH == "bonk/add-workflow-file"

\* the two variants of the file
Variants == {"workflow.ts", "part_000"}

\* the WorkflowContext of a call: two comments of one actor; part_000 reads
\* neither the actor nor the timestamp, so one context stands for all
ModeContexts == { i \in PendingInputs : i.actor = "alice" /\ i.issueNumber # 43 }
ContextsOf(variant) ==
    IF variant = "workflow.ts" THEN ModeContexts
    ELSE { i \in ModeContexts : i.issueNumber = 42 }

\* octokit.repos.getContent resolves with the file or throws (a 404 or any
\* other fault)
ContentOutcomes == {"found", "throws"}

fileExists_Always(outcome) == TRUE

\* fileExists: every error of the query is caught and answered with false
fileExists(outcome) == outcome = "found"

\* what findOpenPR resolves to: null (<<>>) or the first open pull request
\* whose head is the workflow branch
OpenPRs == { <<>>, << [ number |-> "5", url |-> <<"https://github.com/o/r/pull/", "5">> ] >> }

\* the number pulls.create answers with
NewPrNumbers == {"6"}

\* what createBranch may throw: an Error with its message, or another value
BranchErrors ==
    { [ isError |-> TRUE,  message |-> <<"Reference already exists">> ],
      [ isError |-> TRUE,  message |-> <<"Reference already exists", "-", "https://docs.github.com/rest">> ],
      [ isError |-> TRUE,  message |-> <<"Not Found">> ],
      [ isError |-> FALSE, message |-> <<"Reference already exists">> ] }

\* the error a failed GitHub call throws elsewhere
ApiFault == [ isError |-> TRUE, message |-> <<ApiError>> ]

\* errorMessage.includes(phrase)
Includes(message, phrase) == \E i \in DOMAIN message : message[i] = phrase

BranchErrorTolerated_Any(error) == TRUE

\* workflow.ts 112-118: the error of createBranch is swallowed when it is an
\* Error whose message includes "Reference already exists"
BranchErrorTolerated(error) ==
    LET errorMessage == IF error.isError THEN error.message ELSE <<>>
    IN  Includes(errorMessage, "Reference already exists")

\* the comment bodies and the results of createWorkflowPR
ExistingBody(pr) == <<"Please merge PR first", pr.number>> \o pr.url
CreatedBody(prNumber, prUrl) == <<"I've created a PR to add it", prNumber>> \o prUrl
PrUrlOf(prNumber) == <<"https://github.com/o/r/pull/", prNumber>>

ExistsResult(pr) ==
    [ success |-> FALSE, message |-> <<"PR already exists", pr.number>>, prUrl |-> <<pr.url>> ]
CreatedResult(prNumber) ==
    [ success |-> TRUE, message |-> <<"Created PR", prNumber>>, prUrl |-> <<PrUrlOf(prNumber)>> ]
RegisteredResult ==
    [ success |-> TRUE, message |-> <<"Workflow triggered, awaiting workflow_run event">>,
      prUrl |-> <<>> ]
DispatchedResult ==
    [ success |-> TRUE, message |-> <<"Workflow triggered successfully">>, prUrl |-> <<>> ]
DispatchFailedResult(error) ==
    [ success |-> FALSE, message |-> <<"Failed to trigger workflow">> \o error.message,
      prUrl |-> <<>> ]

\* workflow.ts writes its comment with createComment on the issue,
\* part_000 with updateComment on the response comment
WriteComment(c, body, ok) ==
    IF c.variant = "workflow.ts" THEN createComment(c.log, body, ok)
    ELSE updateComment(c.log, body, ok)

NewModeCall(variant, context, installationId) ==
    [ fn |-> "runWorkflowMode", variant |-> variant, context |-> context,
      installationId |-> installationId, pc |-> "createOctokit", log |-> <<>>,
      hasWorkflow |-> <<>>, existingPR |-> <<>>, prNumber |-> <<>>,
      caught |-> <<>>, result |-> <<>>, threw |-> <<>> ]

\* the call moves on to the await at pc, the log as given
Goes(c, pc, log) == [ c EXCEPT !.pc = pc, !.log = log ]
Returns(c, log, result) == [ c EXCEPT !.pc = "done", !.log = log, !.result = <<result>> ]
Throws(c, log, error) == [ c EXCEPT !.pc = "done", !.log = log, !.threw = <<error>> ]

At(i, pc) == wf[i].fn = "runWorkflowMode" /\ wf[i].pc = pc

ModeAlone == UNCHANGED <<last, paths, prev, other, req, hook, calls>>
TrackerAlone == UNCHANGED <<now, schedules, trk, state, regs>>

\* runWorkflowMode is called (workflow.ts 48-62)
ModeStart ==
    /\ Len(wf) < MaxModeCalls
    /\ \E variant \in Variants, context \in ModeContexts, id \in InstallationIds :
           /\ context \in ContextsOf(variant)
           /\ wf' = Append(wf, NewModeCall(variant, context, id))
    /\ TrackerAlone /\ ModeAlone

\* createOctokit resolves or throws (workflow.ts 62)
ModeCreateOctokit ==
    /\ \E i \in DOMAIN wf, ok \in BOOLEAN :
           /\ At(i, "createOctokit")
           /\ LET c == wf[i]
                  log == Called(c.log, "createOctokit", <<>>, ok)
              IN  wf' = [ wf EXCEPT ![i] =
                            IF ok THEN Goes(c, "fileExists", log) ELSE Throws(c, log, ApiFault) ]
    /\ TrackerAlone /\ ModeAlone

\* fileExists answers, and the call takes its branch (workflow.ts 63-68,
\* part_000 83-88)
ModeFileExists ==
    /\ \E i \in DOMAIN wf, outcome \in ContentOutcomes :
           /\ At(i, "fileExists")
           /\ LET c == wf[i]
                  hasWorkflow == fileExists(outcome)
                  log == Called(c.log, "fileExists", <<WORKFLOW_FILE_PATH>>, outcome = "found")
                  pc == IF ~hasWorkflow THEN "findOpenPR"
                        ELSE IF c.variant = "workflow.ts" THEN "setInstallationId"
                        ELSE "triggerWorkflowDispatch"
              IN  wf' = [ wf EXCEPT ![i] =
                            [ Goes(c, pc, log) EXCEPT !.hasWorkflow = <<hasWorkflow>> ] ]
    /\ TrackerAlone /\ ModeAlone

\* agent.setInstallationId(installationId) (workflow.ts 71-72)
ModeSetInstallation ==
    /\ \E i \in DOMAIN wf :
           /\ At(i, "setInstallationId")
           /\ setInstallationId(wf[i].installationId)
           /\ wf' = [ wf EXCEPT ![i] =
                        Goes(@, "addPendingWorkflow", Called(@.log, "setInstallationId", <<>>, TRUE)) ]
    /\ ModeAlone

\* agent.addPendingWorkflow(...) and the return (workflow.ts 73-80)
ModeAddPending ==
    /\ \E i \in DOMAIN wf :
           /\ At(i, "addPendingWorkflow")
           /\ addPendingWorkflow(wf[i].context.actor, wf[i].context.timestamp,
                                 wf[i].context.issueNumber)
           /\ wf' = [ wf EXCEPT ![i] =
                        Returns(@, Called(@.log, "addPendingWorkflow", <<>>, TRUE),
                                RegisteredResult) ]
    /\ ModeAlone

\* triggerWorkflowDispatch resolves or throws (part_000 91-100)
ModeDispatch ==
    /\ \E i \in DOMAIN wf, ok \in BOOLEAN :
           /\ At(i, "triggerWorkflowDispatch")
           /\ LET c == wf[i]
                  log == Called(c.log, "triggerWorkflowDispatch", <<"bonk.yml">>, ok)
              IN  wf' = [ wf EXCEPT ![i] =
                            IF ok THEN Goes(c, "reportTriggered", log)
                            ELSE [ Goes(c, "reportFailed", log) EXCEPT !.caught = <<ApiFault>> ] ]
    /\ TrackerAlone /\ ModeAlone

\* the comment is set to the success text inside the try (part_000 102-113)
ModeReportTriggered ==
    /\ \E i \in DOMAIN wf, ok \in BOOLEAN :
           /\ At(i, "reportTriggered")
           /\ LET c == wf[i]
                  log == updateComment(c.log, <<"Bonk workflow triggered.">>, ok)
              IN  wf' = [ wf EXCEPT ![i] =
                            IF ok THEN Returns(c, log, DispatchedResult)
                            ELSE [ Goes(c, "reportFailed", log) EXCEPT !.caught = <<ApiFault>> ] ]
    /\ TrackerAlone /\ ModeAlone

\* the catch block (part_000 114-130)
ModeReportFailed ==
    /\ \E i \in DOMAIN wf, ok \in BOOLEAN :
           /\ At(i, "reportFailed")
           /\ LET c == wf[i]
                  error == c.caught[1]
                  log == updateComment(c.log, <<"Failed to trigger Bonk workflow.">> \o error.message, ok)
              IN  wf' = [ wf EXCEPT ![i] =
                            IF ok THEN Returns(c, log, DispatchFailedResult(error))
                            ELSE Throws(c, log, ApiFault) ]
    /\ TrackerAlone /\ ModeAlone

\* createWorkflowPR asks for an open pull request of the workflow branch
\* (workflow.ts 90-91, part_000 144-145)
ModeFindOpenPR ==
    /\ \E i \in DOMAIN wf, ok \in BOOLEAN, pr \in OpenPRs :
           /\ At(i, "findOpenPR")
           /\ ~ok => pr = <<>>
           /\ LET c == wf[i]
                  log == Called(c.log, "findOpenPR", <<WORKFLOW_BRANCH>>, ok)
              IN  wf' = [ wf EXCEPT ![i] =
                            IF ~ok THEN Throws(c, log, ApiFault)
                            ELSE IF pr # <<>>
                            THEN [ Goes(c, "commentExisting", log) EXCEPT !.existingPR = pr ]
                            ELSE Goes(c, "getDefaultBranchSha", log) ]
    /\ TrackerAlone /\ ModeAlone

\* an open pull request exists: one comment, and the result (workflow.ts
\* 91-105, part_000 145-158)
ModeCommentExisting ==
    /\ \E i \in DOMAIN wf, ok \in BOOLEAN :
           /\ At(i, "commentExisting")
           /\ LET c == wf[i]
                  pr == c.existingPR[1]
                  log == WriteComment(c, ExistingBody(pr), ok)
              IN  wf' = [ wf EXCEPT ![i] =
                            IF ok THEN Returns(c, log, ExistsResult(pr))
                            ELSE Throws(c, log, ApiFault) ]
    /\ TrackerAlone /\ ModeAlone

\* getDefaultBranchSha (workflow.ts 107, part_000 162)
ModeGetSha ==
    /\ \E i \in DOMAIN wf, ok \in BOOLEAN :
           /\ At(i, "getDefaultBranchSha")
           /\ LET c == wf[i]
                  log == Called(c.log, "getDefaultBranchSha", <<>>, ok)
              IN  wf' = [ wf EXCEPT ![i] =
                            IF ok THEN Goes(c, "createBranch", log) ELSE Throws(c, log, ApiFault) ]
    /\ TrackerAlone /\ ModeAlone

\* createBranch resolves (workflow.ts 109-110, part_000 165-166)
ModeCreateBranch ==
    /\ \E i \in DOMAIN wf :
           /\ At(i, "createBranch")
           /\ wf' = [ wf EXCEPT ![i] =
                        Goes(@, "createOrUpdateFile",
                             Called(@.log, "createBranch", <<WORKFLOW_BRANCH>>, TRUE)) ]
    /\ TrackerAlone /\ ModeAlone

\* createBranch throws (workflow.ts 111-118, part_000 167-173)
ModeCreateBranchFails ==
    /\ \E i \in DOMAIN wf, error \in BranchErrors :
           /\ At(i, "createBranch")
           /\ LET c == wf[i]
                  log == Called(c.log, "createBranch", error.message, FALSE)
              IN  wf' = [ wf EXCEPT ![i] =
                            IF BranchErrorTolerated(error)
                            THEN [ Goes(c, "createOrUpdateFile", log) EXCEPT !.caught = <<error>> ]
                            ELSE [ Throws(c, log, error) EXCEPT !.caught = <<error>> ] ]
    /\ TrackerAlone /\ ModeAlone

\* createOrUpdateFile (workflow.ts 120-129, part_000 176-185)
ModeCreateFile ==
    /\ \E i \in DOMAIN wf, ok \in BOOLEAN :
           /\ At(i, "createOrUpdateFile")
           /\ LET c == wf[i]
                  log == Called(c.log, "createOrUpdateFile", <<WORKFLOW_FILE_PATH, WORKFLOW_BRANCH>>, ok)
              IN  wf' = [ wf EXCEPT ![i] =
                            IF ok THEN Goes(c, "createPullRequest", log)
                            ELSE Throws(c, log, ApiFault) ]
    /\ TrackerAlone /\ ModeAlone

\* createPullRequest (workflow.ts 158-166, part_000 216-224)
ModeCreatePR ==
    /\ \E i \in DOMAIN wf, ok \in BOOLEAN, prNumber \in NewPrNumbers :
           /\ At(i, "createPullRequest")
           /\ LET c == wf[i]
                  log == Called(c.log, "createPullRequest", <<WORKFLOW_BRANCH>>, ok)
              IN  wf' = [ wf EXCEPT ![i] =
                            IF ok THEN [ Goes(c, "commentCreated", log) EXCEPT !.prNumber = <<prNumber>> ]
                            ELSE Throws(c, log, ApiFault) ]
    /\ TrackerAlone /\ ModeAlone

\* the comment on the new pull request, and the result (workflow.ts
\* 168-182, part_000 226-240)
ModeCommentCreated ==
    /\ \E i \in DOMAIN wf, ok \in BOOLEAN :
           /\ At(i, "commentCreated")
           /\ LET c == wf[i]
                  prNumber == c.prNumber[1]
                  log == WriteComment(c, CreatedBody(prNumber, PrUrlOf(prNumber)), ok)
              IN  wf' = [ wf EXCEPT ![i] =
                            IF ok THEN Returns(c, log, CreatedResult(prNumber))
                            ELSE Throws(c, log, ApiFault) ]
    /\ TrackerAlone /\ ModeAlone

NextMode ==
    \/ ModeStart \/ ModeCreateOctokit \/ ModeFileExists
    \/ ModeSetInstallation \/ ModeAddPending
    \/ ModeDispatch \/ ModeReportTriggered \/ ModeReportFailed
    \/ ModeFindOpenPR \/ ModeCommentExisting \/ ModeGetSha
    \/ ModeCreateBranch \/ ModeCreateBranchFails
    \/ ModeCreateFile \/ ModeCreatePR \/ ModeCommentCreated

SpecMode == Init /\ [][NextMode]_vars

-----------------------------------------------------------------------------
(* findWorkflowRun (src/src/github.ts 539-588): one call, at its loop head, *)
(* in a sleep or at its list query; its log holds the sleeps and the       *)
(* queries with the time of each. Timers resolve when due, a query takes   *)
(* no time.                                                                *)

\* the clock step while a call sleeps, seconds
FindStep == 10

delays_Five == <<0, 10000, 20000, 30000, 40000>>

\* github.ts 548
delays == <<0, 10000, 20000, 30000>>

\* workflow runs as listWorkflowRuns reports them: triggering_actor, status
\* and conclusion may be missing (<<>>)
Run(id, actor, status, conclusion) ==
    [ id |-> id, html_url |-> <<"https://github.com/o/r/actions/runs/", id>>,
      triggering_actor |-> actor, status |-> status, conclusion |-> conclusion ]

RunLists ==
    { <<>>,
      << Run("13", <<"bob">>, <<"queued">>, <<>>) >>,
      << Run("11", <<"alice">>, <<>>, <<>>) >>,
      << Run("14", <<>>, <<"queued">>, <<>>),
         Run("13", <<"bob">>, <<"in_progress">>, <<>>),
         Run("12", <<"alice">>, <<"completed">>, <<"success">>),
         Run("11", <<"alice">>, <<"queued">>, <<>>) >> }

\* the runs of the list triggered by the actor, by position
MatchesOf(runs, triggeringActor) ==
    { k \in DOMAIN runs : runs[k].triggering_actor = <<triggeringActor>> }

\* workflow_runs.find(...): the first match, or undefined (<<>>)
FindRun(runs, triggeringActor) ==
    LET hits == MatchesOf(runs, triggeringActor)
    IN  IF hits = {} THEN <<>>
        ELSE << runs[CHOOSE k \in hits : \A j \in hits : k <= j] >>

\* the WorkflowRunInfo returned for a run (github.ts 572-577)
RunInfo(run) ==
    [ id |-> run.id, url |-> run.html_url,
      status |-> IF run.status = <<>> THEN "unknown" ELSE run.status[1],
      conclusion |-> run.conclusion ]

NewFindCall(triggeringActor) ==
    [ fn |-> "findWorkflowRun", triggeringActor |-> triggeringActor,
      calledAt |-> now, i |-> 0, pc |-> "loop", wake |-> 0, log |-> <<>>,
      result |-> <<>>, threw |-> <<>> ]

\* the head of the loop at index i (github.ts 551-556): past the last
\* delay the call returns null
LoopHead(c, i) ==
    IF ~(i < Len(delays)) THEN [ c EXCEPT !.i = i, !.pc = "done" ]
    ELSE [ c EXCEPT !.i = i, !.pc = IF delays[i + 1] > 0 THEN "sleep" ELSE "query" ]

\* runs is the list a query resolved with
FindLogged(c, call, ms, ok, runs) ==
    Append(c.log, [ call |-> call, at |-> now, ms |-> ms, ok |-> ok, runs |-> runs ])

FindAt(pc) == Len(wf) = 1 /\ wf[1].fn = "findWorkflowRun" /\ wf[1].pc = pc

FindAlone == UNCHANGED <<schedules, trk, state, regs, last, paths, prev, other, req, hook, calls>>

\* findWorkflowRun is called and reaches the loop head
FindStart ==
    /\ wf = <<>>
    /\ \E triggeringActor \in Actors :
           wf' = << LoopHead(NewFindCall(triggeringActor), 0) >>
    /\ UNCHANGED now
    /\ FindAlone

\* sleep(delay) is called (github.ts 553-556)
FindSleep ==
    /\ FindAt("sleep")
    /\ LET c == wf[1]
           delay == delays[c.i + 1]
       IN  wf' = << [ c EXCEPT !.pc = "sleeping", !.wake = now + delay \div 1000,
                               !.log = FindLogged(c, "sleep", delay, TRUE, <<>>) ] >>
    /\ UNCHANGED now
    /\ FindAlone

\* the clock advances while the call sleeps
FindTick ==
    /\ FindAt("sleeping")
    /\ now < wf[1].wake
    /\ now' = now + FindStep
    /\ UNCHANGED wf
    /\ FindAlone

\* the timer of sleep resolves (github.ts 526-528)
FindWake ==
    /\ FindAt("sleeping")
    /\ now >= wf[1].wake
    /\ wf' = << [ wf[1] EXCEPT !.pc = "query" ] >>
    /\ UNCHANGED now
    /\ FindAlone

\* listWorkflowRuns resolves: the first run of the actor is returned, or
\* the loop goes on (github.ts 558-580)
FindQuery ==
    /\ FindAt("query")
    /\ \E runs \in RunLists :
           LET c == wf[1]
               run == FindRun(runs, c.triggeringActor)
               log == FindLogged(c, "listWorkflowRuns", 0, TRUE, runs)
           IN  wf' = << IF run # <<>>
                        THEN [ c EXCEPT !.pc = "done", !.log = log,
                                        !.result = << RunInfo(run[1]) >> ]
                        ELSE LoopHead([ c EXCEPT !.log = log ], c.i + 1) >>
    /\ UNCHANGED now
    /\ FindAlone

\* listWorkflowRuns throws: the error is logged and the loop goes on
\* (github.ts 581-583)
FindQueryFails ==
    /\ FindAt("query")
    /\ LET c == wf[1]
       IN  wf' = << LoopHead([ c EXCEPT !.log = FindLogged(c, "listWorkflowRuns", 0, FALSE, <<>>) ],
                             c.i + 1) >>
    /\ UNCHANGED now
    /\ FindAlone

NextFind ==
    FindStart \/ FindSleep \/ FindTick \/ FindWake \/ FindQuery \/ FindQueryFails

SpecFind == Init /\ [][NextFind]_vars

-----------------------------------------------------------------------------
(* Model sanity                                                            *)

\* the clock bound Horizon cuts no poll chain short: it is reached only
\* after every chain has ended
HorizonNotBinding == schedules # {} => now + Step <= Horizon

\* the notifications made, the comments posted and the triggers outstanding
\* for run id r, over all trackRun invocations of r
TracksOfRun(r) == { t \in TrackIds : trk[t].runId = r }

RECURSIVE SumOver(_, _)
SumOver(f, S) ==
    IF S = {} THEN 0 ELSE LET x == CHOOSE y \in S : TRUE IN f[x] + SumOver(f, S \ {x})

NotifiedOfRun(r) == SumOver([ t \in TrackIds |-> trk[t].notified ], TracksOfRun(r))

TriggersOfRun(r) == { s \in schedules : s.payload.runId = r }

-----------------------------------------------------------------------------
(* C1                                                                      *)

\* C1 as stated: for every run id, at most one notification is ever made,
\* exactly one once the run has ended without success, and no poll trigger
\* for the run id is outstanding once a poll chain of it has ended.
C1_OneNotificationPerRun ==
    \A r \in RunIds :
        /\ NotifiedOfRun(r) <= 1
        /\ (\E t \in TracksOfRun(r) : trk[t].phase \in {"failure", "ended"})
              => NotifiedOfRun(r) = 1
        /\ (\E t \in TracksOfRun(r) : trk[t].phase # "polling")
              => TriggersOfRun(r) = {}

\* C1 amended: for every trackRun invocation, its poll chain makes no
\* notification while it polls (and has exactly one trigger outstanding),
\* none when it ends on success, exactly one (at most one comment posted)
\* when it ends otherwise, and has no trigger outstanding once it has ended;
\* a run id tracked by k invocations gets at most k notifications.
C1_OneNotificationPerTrack ==
    /\ \A t \in TrackIds :
          /\ trk[t].phase \in {"polling", "success", "failure", "ended"}
          /\ trk[t].phase = "polling" =>
                /\ trk[t].notified = 0 /\ trk[t].posted = 0
                /\ Cardinality(TriggersOf(t)) = 1
          /\ trk[t].phase = "success" =>
                /\ trk[t].notified = 0 /\ trk[t].posted = 0
                /\ TriggersOf(t) = {}
          /\ trk[t].phase \in {"failure", "ended"} =>
                /\ trk[t].notified = 1 /\ trk[t].posted <= 1
                /\ TriggersOf(t) = {}
    /\ \A r \in RunIds : NotifiedOfRun(r) <= Cardinality(TracksOfRun(r))

\* one run id, tracked twice, has been notified about twice, and another
\* chain has ended on success without a notification
C1_Witness ==
    \E t1, t2 \in TrackIds :
        /\ t1 # t2 /\ trk[t1].runId = trk[t2].runId
        /\ trk[t1].phase = "failure" /\ trk[t2].phase = "ended"
        /\ trk[t1].posted = 1 /\ trk[t2].posted = 1
        /\ NotifiedOfRun(trk[t1].runId) = 2

-----------------------------------------------------------------------------
(* Vocabulary of the claims about one poll                                 *)

\* the operation just run was the poll handler
Polled == last.op = "checkWorkflowStatus"

\* milliseconds since the trackRun call of invocation t
ElapsedMs(t) == DateNow - trk[t].trackedAt * 1000

\* the poll just run fired within the ceiling
PolledWithinCeiling == Polled /\ ElapsedMs(last.track) <= MAX_TRACKING_TIME_MS

\* the poll just run got a run object from the status query
PolledStatus == PolledWithinCeiling /\ last.env.auth = "ok" /\ last.env.query = "ok"

\* the poll just run scheduled exactly one poll, POLL_INTERVAL_SECONDS from now
RescheduledOnce ==
    /\ Len(last.scheduled) = 1
    /\ last.scheduled[1].callback = "checkWorkflowStatus"
    /\ last.scheduled[1].time = now + POLL_INTERVAL_SECONDS
    /\ TriggersOf(last.track) = { last.scheduled[1] @@ [ track |-> last.track ] }

-----------------------------------------------------------------------------
(* C2                                                                      *)

\* C2: while every poll of the tracked run has returned a non-completed
\* status, each poll reschedules exactly one poll 30 s later and nothing is
\* notified; a poll is the timeout poll exactly if it fires more than 30
\* minutes after trackRun; that poll makes exactly one 'timeout'
\* notification and schedules nothing, and the chain has ended.
C2_PendingUntilTimeout ==
    (trk # <<>> /\ paths \subseteq {"pending", "timeout"}) =>
        /\ "timeout" \notin paths =>
              /\ trk[1].phase = "polling" /\ trk[1].notified = 0
              /\ Cardinality(schedules) = 1
        /\ Polled => (last.path = "timeout" <=> ElapsedMs(1) > 30 * 60 * 1000)
        /\ (Polled /\ last.path = "pending") =>
              /\ RescheduledOnce /\ last.scheduled[1].time = now + 30
              /\ last.notified = <<>>
        /\ (Polled /\ last.path = "timeout") =>
              /\ last.notified = <<"timeout">> /\ last.scheduled = <<>>
              /\ Len(last.posted) <= 1 /\ last.queries = 0
        /\ "timeout" \in paths =>
              /\ trk[1].phase = "ended" /\ trk[1].notified = 1
              /\ schedules = {}

\* a run whose polls all returned a non-completed status has just timed out
C2_Witness ==
    /\ trk # <<>> /\ paths = {"pending", "timeout"}
    /\ Polled /\ last.path = "timeout" /\ trk[1].notified = 1 /\ trk[1].posted = 1

-----------------------------------------------------------------------------
(* C3                                                                      *)

\* C3: a poll within the ceiling that observes status 'completed' with a
\* conclusion other than 'success' makes exactly one notification, with
\* that conclusion (one comment, none if the delivery fails), and
\* schedules no poll; it is the only notification of the chain.
C3_NonSuccessNotifiesOnce ==
    (PolledStatus /\ last.env.status = "completed" /\ last.env.conclusion # "success") =>
        /\ last.notified = << last.env.conclusion >>
        /\ Len(last.posted) = (IF last.delivery = "ok" THEN 1 ELSE 0)
        /\ last.scheduled = <<>>
        /\ TriggersOf(last.track) = {}
        /\ trk[last.track].notified = 1

\* the second poll, after a non-completed one, observes {completed, cancelled}
C3_Witness ==
    /\ PolledStatus /\ last.env.status = "completed" /\ last.env.conclusion = "cancelled"
    /\ paths = {"pending", "completed"}
    /\ last.posted # <<>> /\ last.posted[1].body[4] = "cancelled"

-----------------------------------------------------------------------------
(* C4                                                                      *)

\* C4 as stated: once a run id has got its failure notification, a poll
\* firing for that run id makes no further notification and schedules no
\* further poll.
C4_NoNotificationAfterFailure ==
    [][ \A r \in RunIds :
          ( /\ \E t \in TracksOfRun(r) : trk[t].phase = "failure"
            /\ Len(trk') = Len(trk) )
          => /\ NotifiedOfRun(r)' = NotifiedOfRun(r)
             /\ TriggersOfRun(r)' \subseteq TriggersOfRun(r) ]_vars

\* C4 amended: once the poll chain of a trackRun invocation has made its
\* failure notification it has no trigger outstanding, so no poll of that
\* chain fires again: it makes no further notification and schedules no
\* further poll.  (A poll of another invocation for the same run id is
\* handled on its own and notifies again.)
C4_ChainStopsAfterFailure ==
    [][ \A t \in TrackIds :
          trk[t].phase = "failure"
          => /\ trk[t].notified = 1
             /\ TriggersOf(t) = {}
             /\ trk'[t] = trk[t]
             /\ TriggersOf(t)' = {} ]_vars

\* the run id of a chain that has notified its failure was polled again by
\* the chain of a second trackRun call, which notified the failure again
C4_Witness ==
    \E t1, t2 \in TrackIds :
        /\ t1 # t2 /\ trk[t1].runId = trk[t2].runId
        /\ trk[t1].phase = "failure" /\ trk[t2].phase = "failure"
        /\ trk[t1].notified = 1 /\ trk[t2].notified = 1
        /\ schedules = {}

-----------------------------------------------------------------------------
(* C5                                                                      *)

\* C5: a poll within the ceiling that observes {completed, success} makes
\* no notification and schedules no poll; the chain has ended with zero
\* notifications if that was its first poll.
C5_SuccessIsSilent ==
    (PolledStatus /\ last.env.status = "completed" /\ last.env.conclusion = "success") =>
        /\ last.notified = <<>> /\ last.posted = <<>>
        /\ last.scheduled = <<>>
        /\ TriggersOf(last.track) = {}
        /\ paths = {"success"} =>
              trk[last.track].notified = 0 /\ trk[last.track].posted = 0

\* the first poll of a run observed {completed, success}
C5_Witness ==
    /\ PolledStatus /\ last.env.status = "completed" /\ last.env.conclusion = "success"
    /\ paths = {"success"}

-----------------------------------------------------------------------------
(* C6                                                                      *)

\* C6: a poll within the ceiling whose status query returns a status other
\* than 'completed' schedules exactly one poll 30 s later and notifies
\* nothing.
C6_NotCompletedReschedules ==
    (PolledStatus /\ last.env.status # "completed") =>
        /\ RescheduledOnce
        /\ last.notified = <<>> /\ last.posted = <<>>
        /\ trk[last.track].phase = "polling"

\* a poll got a run object without a status ('unknown') and polls again
C6_Witness ==
    /\ PolledStatus /\ last.env.status = Null
    /\ Cardinality(schedules) = 1

-----------------------------------------------------------------------------
(* C7                                                                      *)

\* C7: a poll within the ceiling in which createOctokit or the status query
\* throws notifies nothing, schedules exactly one poll 30 s later, and
\* returns normally.
C7_FaultsReschedule ==
    (PolledWithinCeiling /\ (last.env.auth = "fault" \/ last.env.query = "fault")) =>
        /\ last.notified = <<>> /\ last.posted = <<>>
        /\ RescheduledOnce
        /\ ~last.threw
        /\ trk[last.track].phase = "polling"

\* an authentication fault follows a status-query fault, and the run is still polled
C7_Witness ==
    /\ PolledWithinCeiling /\ last.env.auth = "fault"
    /\ "queryFault" \in paths
    /\ Cardinality(schedules) = 1

-----------------------------------------------------------------------------
(* C8                                                                      *)

\* C8: every outstanding poll trigger carries the payload trackRun built
\* (run id, run URL, issue number, createdAt = the time of trackRun), so a
\* poll is the timeout poll exactly if it fires more than 30 minutes after
\* trackRun, whatever polls came before.
C8_PayloadUnchanged ==
    /\ \A s \in schedules :
          s.payload = [ runId |-> trk[s.track].runId, runUrl |-> trk[s.track].runUrl,
                        issueNumber |-> trk[s.track].issueNumber,
                        createdAt |-> trk[s.track].trackedAt * 1000 ]
    /\ Polled =>
          /\ last.payload.createdAt = trk[last.track].trackedAt * 1000
          /\ last.path = "timeout" <=> ElapsedMs(last.track) > MAX_TRACKING_TIME_MS

\* a run tracked after time 0 times out after polls of all three
\* rescheduling kinds
C8_Witness ==
    /\ Polled /\ last.path = "timeout"
    /\ {"authFault", "queryFault", "pending"} \subseteq paths
    /\ trk[1].trackedAt > 0

-----------------------------------------------------------------------------
(* C9                                                                      *)

\* C9: when the delivery of a notification fails (createOctokit or
\* createComment throws in postFailureComment), the poll handler returns
\* normally, posts nothing, makes no second attempt and schedules no poll.
C9_DeliveryFailureSwallowed ==
    (Polled /\ last.notified # <<>> /\ last.delivery # "ok") =>
        /\ ~last.threw
        /\ last.posted = <<>>
        /\ Len(last.notified) = 1
        /\ last.scheduled = <<>>
        /\ TriggersOf(last.track) = {}
        /\ trk[last.track].notified = 1 /\ trk[last.track].posted = 0

\* the comment of a timeout notification could not be created
C9_Witness ==
    /\ Polled /\ last.path = "timeout" /\ last.delivery = "commentFault"
    /\ schedules = {}

-----------------------------------------------------------------------------
(* C10                                                                     *)

\* C10: with the clock advancing and due triggers firing, every tracked run
\* reaches a state with no poll trigger outstanding, whatever the polls
\* return.
C10_EventuallyStops == (trk # <<>>) ~> (schedules = {})

\* a run whose every poll hit an authentication fault has stopped at the ceiling
C10_Witness ==
    /\ trk # <<>> /\ schedules = {}
    /\ paths = {"authFault", "timeout"}

-----------------------------------------------------------------------------
(* Vocabulary of the claims about pending entries                          *)

\* the places, in property order, of the entries of this actor
ActorEntries(obj, actor) == { i \in DOMAIN obj : obj[i].value.actor = actor }

Consumed == last.op = "consumePendingWorkflow"

Registered == last.op = "addPendingWorkflow"

CleanedUp == last.op = "cleanupPendingWorkflow"

\* the last two operations were consumePendingWorkflow calls for one actor
ConsumedTwice ==
    /\ Consumed /\ prev.op = "consumePendingWorkflow"
    /\ prev.actor = last.actor

-----------------------------------------------------------------------------
(* C11                                                                     *)

\* C11 as stated: of two successive consumePendingWorkflow calls for one
\* actor, with no addPendingWorkflow in between, the second returns null.
\* (Fails when the actor had two entries: the second call returns the other.)
C11_SecondConsumeNotFound ==
    ConsumedTwice => last.result = << >>

\* C11: of two successive consumePendingWorkflow calls for one actor that had
\* at most one pending entry before the first, the second returns null
\* (without raising); in general each call returns another entry of the
\* actor until none is left.
C11_SecondConsumeNotFoundIfSingle ==
    ConsumedTwice =>
        /\ ~last.threw
        /\ Cardinality(ActorEntries(prev.before.pendingWorkflows, last.actor)) <= 1
            => last.result = << >>
        /\ last.result # << >> => last.result # prev.result

\* the first call returned the actor's only entry, the second found none
C11_Witness ==
    /\ ConsumedTwice
    /\ Cardinality(ActorEntries(prev.before.pendingWorkflows, last.actor)) = 1
    /\ prev.result # << >> /\ last.result = << >>

-----------------------------------------------------------------------------
(* C12                                                                     *)

\* C12: consumePendingWorkflow(actor) returns, of the actor's entries, the
\* one that comes first in the pending map's property order (the key
\* inserted earliest), whatever the entries' timestamps and issue numbers.
C12_FirstInserted ==
    (Consumed /\ last.result # << >>) =>
        LET obj == last.before.pendingWorkflows
            hits == ActorEntries(obj, last.actor)
        IN  \E i \in hits :
                /\ \A j \in hits : i <= j
                /\ last.result = << obj[i].value >>

\* of alice's two entries the one inserted first was returned, though it has
\* the later timestamp and the smaller issue number
C12_Witness ==
    /\ Consumed /\ last.actor = "alice"
    /\ Cardinality(ActorEntries(last.before.pendingWorkflows, "alice")) = 2
    /\ last.result # << >>
    /\ last.result[1].timestamp = "2024-01-01T00:05:00Z"
    /\ last.result[1].issueNumber = 7
    /\ \E i \in DOMAIN state.pendingWorkflows :
            /\ state.pendingWorkflows[i].value.timestamp = "2024-01-01T00:00:00Z"
            /\ state.pendingWorkflows[i].value.issueNumber = 43

-----------------------------------------------------------------------------
(* C13                                                                     *)

\* C13: a consumePendingWorkflow call that finds an entry removes exactly
\* that entry: every other entry (of the same actor too) and the
\* installation id are as before; and no entry is ever returned by more
\* than one call.
C13_RemovesExactlyReturned ==
    /\ (Consumed /\ last.result # << >>) =>
          LET obj == last.before.pendingWorkflows
              r == last.result[1]
          IN  /\ \E i \in DOMAIN obj :
                    /\ obj[i] = [ key |-> KeyOf(r.actor, r.timestamp), value |-> r ]
                    /\ state.pendingWorkflows =
                           SubSeq(obj, 1, i - 1) \o SubSeq(obj, i + 1, Len(obj))
              /\ state.installationId = last.before.installationId
    /\ \A n \in DOMAIN regs.returned : regs.returned[n] <= 1

\* one of alice's two entries was returned; her other entry and bob's stay,
\* with the installation id recorded before
C13_Witness ==
    /\ Consumed /\ last.actor = "alice" /\ last.result # << >>
    /\ Len(last.before.pendingWorkflows) = 3
    /\ Len(state.pendingWorkflows) = 2
    /\ ActorEntries(state.pendingWorkflows, "alice") # {}
    /\ ActorEntries(state.pendingWorkflows, "bob") # {}
    /\ state.installationId = 101
    /\ \E n \in DOMAIN regs.returned : regs.returned[n] = 1

-----------------------------------------------------------------------------
(* C14                                                                     *)

\* C14: consumePendingWorkflow for an actor without an entry returns null as
\* an ordinary value (nothing is raised) and leaves the pending map, the
\* installation id and every scheduled trigger as they were.
C14_NotFoundChangesNothing ==
    (Consumed /\ ActorEntries(last.before.pendingWorkflows, last.actor) = {}) =>
        /\ last.result = << >>
        /\ ~last.threw
        /\ state = last.before
        /\ schedules = last.schedBefore

\* bob has no entry while alice's is pending with its cleanup trigger
C14_Witness ==
    /\ Consumed /\ last.actor = "bob" /\ last.result = << >>
    /\ ActorEntries(state.pendingWorkflows, "alice") # {}
    /\ state.installationId = 101
    /\ schedules # {}

-----------------------------------------------------------------------------
(* C15                                                                     *)

\* C15: when the actor has no entry, addPendingWorkflow(a, t, i) followed by
\* consumePendingWorkflow(a) returns an entry with actor a, timestamp t and
\* issue number i, and the pending map is again what it was before the
\* registration.
C15_RegisterConsumeRoundTrip ==
    ( /\ Consumed /\ prev.op = "addPendingWorkflow"
      /\ prev.actor = last.actor
      /\ ActorEntries(prev.before.pendingWorkflows, last.actor) = {} ) =>
        /\ ~last.threw
        /\ Len(last.result) = 1
        /\ last.result[1].actor = prev.actor
        /\ last.result[1].timestamp = prev.timestamp
        /\ last.result[1].issueNumber = prev.issueNumber
        /\ state.pendingWorkflows = prev.before.pendingWorkflows

\* alice's entry was registered beside bob's and consumed at once
C15_Witness ==
    /\ Consumed /\ prev.op = "addPendingWorkflow"
    /\ prev.actor = "alice" /\ last.actor = "alice"
    /\ ActorEntries(prev.before.pendingWorkflows, "alice") = {}
    /\ ActorEntries(prev.before.pendingWorkflows, "bob") # {}
    /\ last.result # << >>

-----------------------------------------------------------------------------
(* C16                                                                     *)

\* C16: addPendingWorkflow with a key (actor:timestamp) that is already
\* present overwrites: afterwards exactly one entry is under that key, with
\* the issue number of this call; the other entries are unchanged and
\* nothing is raised.
C16_RegisterOverwrites ==
    (Registered /\ KeyOf(last.actor, last.timestamp) \in KeysOf(last.before.pendingWorkflows)) =>
        LET obj == last.before.pendingWorkflows
            new == state.pendingWorkflows
            key == KeyOf(last.actor, last.timestamp)
        IN  /\ ~last.threw
            /\ Len(new) = Len(obj)
            /\ Cardinality({ i \in DOMAIN new : new[i].key = key }) = 1
            /\ \A i \in DOMAIN obj :
                 IF obj[i].key = key
                     THEN /\ new[i].key = key
                          /\ new[i].value.issueNumber = last.issueNumber
                          /\ new[i].value.actor = last.actor
                          /\ new[i].value.timestamp = last.timestamp
                     ELSE new[i] = obj[i]

\* alice's entry for issue 42 was registered again, for issue 43, beside
\* another entry
C16_Witness ==
    /\ Registered /\ last.actor = "alice" /\ last.issueNumber = 43
    /\ Lookup(last.before.pendingWorkflows, KeyOf(last.actor, last.timestamp)) # << >>
    /\ Lookup(last.before.pendingWorkflows, KeyOf(last.actor, last.timestamp))[1].issueNumber = 42
    /\ Len(state.pendingWorkflows) = 2

-----------------------------------------------------------------------------
(* C17                                                                     *)

\* the cleanup triggers outstanding for a key
CleanupsOf(key) ==
    { s \in schedules : s.callback = "cleanupPendingWorkflow" /\ s.payload.key = key }

\* C17: an entry that is not consumed is removed when the cleanup trigger of
\* its registration fires, 600 seconds after the registration: an entry
\* still in the pending map has that trigger outstanding, a fired trigger
\* leaves no entry under its key, and a consumePendingWorkflow call right
\* after, for the actor whose only entry it was, returns null.
C17_CleanupRemovesUnconsumed ==
    /\ \A i \in DOMAIN state.pendingWorkflows :
          LET e == state.pendingWorkflows[i]
          IN  \E s \in CleanupsOf(e.key) :
                  s.time * 1000 = e.value.createdAt + PENDING_WORKFLOW_CLEANUP_SECONDS * 1000
    /\ CleanedUp =>
          /\ Lookup(state.pendingWorkflows, last.key) = << >>
          /\ last.trigger.time <= now
    /\ ( /\ Consumed /\ prev.op = "cleanupPendingWorkflow"
         /\ ActorEntries(prev.before.pendingWorkflows, last.actor) # {}
         /\ \A i \in ActorEntries(prev.before.pendingWorkflows, last.actor) :
                prev.before.pendingWorkflows[i].key = prev.key ) =>
            last.result = << >>

\* alice's entry, registered at time 0 and never consumed, was removed by
\* its cleanup trigger at 600 s, and the consume call after found nothing
C17_Witness ==
    /\ Consumed /\ last.actor = "alice" /\ last.result = << >>
    /\ prev.op = "cleanupPendingWorkflow"
    /\ \E i \in ActorEntries(prev.before.pendingWorkflows, "alice") :
            /\ prev.before.pendingWorkflows[i].key = prev.key
            /\ prev.before.pendingWorkflows[i].value.createdAt = 0
    /\ now = PENDING_WORKFLOW_CLEANUP_SECONDS
    /\ \A n \in DOMAIN regs.returned : regs.returned[n] = 0

-----------------------------------------------------------------------------
(* C18                                                                     *)

\* the pending map obj with the entry under key taken out
Without(obj, key) ==
    LET Other(e) == e.key # key
    IN  SelectSeq(obj, Other)

\* consumePendingWorkflow returned the entry under a key and the cleanup
\* trigger of that key fired next
ConsumeThenCleanup ==
    /\ CleanedUp /\ prev.op = "consumePendingWorkflow"
    /\ prev.result # << >>
    /\ last.key = KeyOf(prev.result[1].actor, prev.result[1].timestamp)

\* a cleanup trigger removed the entry under its key and
\* consumePendingWorkflow was called next for the actor of that entry
CleanupThenConsume ==
    /\ Consumed /\ prev.op = "cleanupPendingWorkflow"
    /\ Lookup(prev.before.pendingWorkflows, prev.key) # << >>
    /\ Lookup(prev.before.pendingWorkflows, prev.key)[1].actor = last.actor

\* C18 as stated: consumePendingWorkflow and the cleanup of one entry give,
\* in either order, the pending map without that entry and with every
\* other entry.  (Fails when the cleanup runs first and the actor has
\* another entry: the consume call then returns and removes that one.)
C18_RaceSameFinalMap ==
    /\ ConsumeThenCleanup =>
          state.pendingWorkflows = Without(prev.before.pendingWorkflows, last.key)
    /\ CleanupThenConsume =>
          state.pendingWorkflows = Without(prev.before.pendingWorkflows, prev.key)

\* C18: consumePendingWorkflow and the cleanup of one entry, in either
\* order, raise nothing and never return the entry twice; a cleanup for a
\* key that is no longer present changes nothing; and both orders end with
\* the pending map without that entry and with every other entry, provided
\* the entry is the actor's only one (if the cleanup runs first and the
\* actor has another entry, the consume call returns and removes that one).
C18_RaceHarmlessIfSingle ==
    /\ ConsumeThenCleanup =>
          /\ ~prev.threw /\ ~last.threw
          /\ state = last.before
          /\ state.pendingWorkflows = Without(prev.before.pendingWorkflows, last.key)
    /\ CleanupThenConsume =>
          /\ ~prev.threw /\ ~last.threw
          /\ last.result # Lookup(prev.before.pendingWorkflows, prev.key)
          /\ Cardinality(ActorEntries(prev.before.pendingWorkflows, last.actor)) = 1 =>
                /\ last.result = << >>
                /\ state.pendingWorkflows = Without(prev.before.pendingWorkflows, prev.key)
    /\ (CleanedUp /\ Lookup(last.before.pendingWorkflows, last.key) = << >>) =>
          state = last.before

\* at its cleanup time alice's entry was consumed just before its cleanup
\* trigger fired; bob's entry is still there
C18_Witness ==
    /\ ConsumeThenCleanup /\ prev.actor = "alice"
    /\ now >= PENDING_WORKFLOW_CLEANUP_SECONDS
    /\ ActorEntries(state.pendingWorkflows, "bob") # {}

-----------------------------------------------------------------------------
(* C19                                                                     *)

-----------------------------------------------------------------------------
(* C20                                                                     *)

PollsOf(S) == { s \in S : s.callback = "checkWorkflowStatus" }

\* C20: a trackRun call queries no status and notifies of nothing: it
\* schedules exactly one poll, 30 seconds ahead, whose payload is the run
\* id, the run URL, the issue number and the current time as createdAt; it
\* leaves the pending map, the installation id, the other triggers and the
\* poll chains of earlier calls as they were.
C20_TrackRunOnlySchedules ==
    [][ Len(trk') = Len(trk) + 1 =>
          LET t == Len(trk')
              new == schedules' \ schedules
          IN  /\ schedules \subseteq schedules'
              /\ \E s \in PollsOf(new) :
                    /\ new = {s}
                    /\ s.time = now + POLL_INTERVAL_SECONDS
                    /\ s.payload = [ runId |-> trk'[t].runId, runUrl |-> trk'[t].runUrl,
                                     issueNumber |-> trk'[t].issueNumber,
                                     createdAt |-> now * 1000 ]
                    /\ s.payload.runUrl = RunUrl(s.payload.runId)
              /\ trk'[t].notified = 0 /\ trk'[t].posted = 0
              /\ trk'[t].phase = "polling"
              /\ SubSeq(trk', 1, Len(trk)) = trk
              /\ state' = state
              /\ now' = now ]_vars

\* a run was tracked just now, its one poll is due in 30 seconds; an entry is
\* pending with its cleanup trigger and the installation id is recorded
C20_Witness ==
    /\ Len(trk) = 1 /\ trk[1].trackedAt = now
    /\ \E s \in PollsOf(schedules) :
            /\ PollsOf(schedules) = {s}
            /\ s.time = now + POLL_INTERVAL_SECONDS
            /\ s.payload.createdAt = now * 1000
    /\ state.pendingWorkflows # << >>
    /\ state.installationId = 101
    /\ schedules \ PollsOf(schedules) # {}

-----------------------------------------------------------------------------
(* C21                                                                     *)

\* the words sub occur in text, one after the other
Contains(text, sub) ==
    \E i \in 1 .. (Len(text) - Len(sub) + 1) : SubSeq(text, i, i + Len(sub) - 1) = sub

\* the text that stands before the link in a comment body
MessageOf(body) == SubSeq(body, 1, Len(body) - 3)

\* C21: the text of a notification depends on the conclusion alone:
\* 'timeout' gives a text with 'timed out', 'failure' one with 'failed',
\* 'cancelled' one with 'was cancelled', any other value 'finished with
\* status: <conclusion>', with 'unknown' for a null conclusion; the body
\* ends with the link to the run URL and is posted on the run's issue.
C21_MessageByConclusion ==
    (Polled /\ last.posted # << >>) =>
        LET c == last.notified[1]
            p == last.posted[1]
            msg == MessageOf(p.body)
        IN  /\ Len(last.posted) = 1 /\ Len(last.notified) = 1
            /\ p.issueNumber = last.payload.issueNumber
            /\ Len(p.body) > 3
            /\ p.body[Len(p.body) - 2] = "[View workflow run]("
            /\ p.body[Len(p.body) - 1] = last.payload.runUrl
            /\ p.body[Len(p.body)] = ")"
            /\ c = "timeout" => Contains(msg, <<"timed", "out">>)
            /\ c = "failure" => Contains(msg, <<"failed">>)
            /\ c = "cancelled" => Contains(msg, <<"was", "cancelled">>)
            /\ c \notin {"timeout", "failure", "cancelled"} =>
                  Contains(msg, <<"finished", "with", "status:",
                                  IF c = Null THEN "unknown" ELSE c>>)
            /\ \A d \in ApiConclusions \cup {"timeout"} : d = c => msg = statusMessage(d)

\* a run completed without a conclusion: its comment says 'status: unknown'
C21_Witness ==
    /\ Polled /\ last.posted # << >>
    /\ last.notified = << Null >>
    /\ Contains(MessageOf(last.posted[1].body), <<"status:", "unknown">>)

-----------------------------------------------------------------------------
(* C22                                                                     *)

\* C22 as stated: at every moment at most one poll trigger is outstanding
\* for a run id.  (Fails when trackRun is called twice for one run id: each
\* call starts a poll chain of its own.)
C22_OnePollPerRun ==
    \A r \in RunIds : Cardinality(TriggersOfRun(r)) <= 1

\* C22: the polls of one trackRun invocation (not: of one run id) are
\* strictly sequential: at most one poll trigger of the invocation is
\* outstanding, and a poll trigger is scheduled only by trackRun, for the
\* new invocation, or by the handler of a due poll trigger of the same
\* invocation, which that step takes away.
C22_OnePollPerTrack ==
    [][ /\ \A t \in 1 .. Len(trk') :
              Cardinality({ s \in PollsOf(schedules') : s.track = t }) <= 1
        /\ \A s \in PollsOf(schedules' \ schedules) :
              \/ Len(trk') = Len(trk) + 1 /\ s.track = Len(trk')
              \/ /\ trk' # trk \/ schedules' # schedules
                 /\ Len(trk') = Len(trk)
                 /\ \E o \in PollsOf(schedules \ schedules') :
                        /\ o.track = s.track
                        /\ o.payload.runId = s.payload.runId
                        /\ o.time <= now ]_vars

\* two trackRun calls for one run id: each chain has its one poll trigger
\* outstanding, after both were polled
C22_Witness ==
    /\ Len(trk) = 2 /\ trk[1].runId = trk[2].runId
    /\ Cardinality(TriggersOf(1)) = 1 /\ Cardinality(TriggersOf(2)) = 1
    /\ Cardinality(TriggersOfRun(trk[1].runId)) = 2
    /\ now >= 2 * POLL_INTERVAL_SECONDS


----------------------------------------------------------------------------
(* C23: the trackers of different repositories are independent           *)

\* what a tracker holds: installation id, pending entries, triggers
ThisTracker == <<state, schedules>>
OtherTracker == <<other.state, other.schedules>>

\* C23: an operation addressed to one repository leaves the installation
\* id, the pending entries and the scheduled triggers of the tracker of
\* every other repository as they were.
C23_ReposIndependent ==
    [][ last'.op = "call" =>
            /\ last'.repo = ThisRepo => OtherTracker' = OtherTracker
            /\ last'.repo # ThisRepo => ThisTracker' = ThisTracker ]_vars

\* both trackers hold an installation id, a pending entry and a trigger,
\* and the last operation was addressed to the other repository
C23_Witness ==
    /\ last.op = "call" /\ last.repo # ThisRepo
    /\ state.installationId \in InstallationIds
    /\ other.state.installationId \in InstallationIds
    /\ state.pendingWorkflows # <<>> /\ other.state.pendingWorkflows # <<>>
    /\ schedules # {} /\ other.schedules # {}
    /\ state.pendingWorkflows # other.state.pendingWorkflows


----------------------------------------------------------------------------
(* Vocabulary of the claims about processRequest                          *)

\* the calls the request has made so far
ReqLog == IF req.pc = "none" THEN <<>> ELSE req.log
CallsOf(call) == { i \in DOMAIN ReqLog : ReqLog[i].call = call }
Invocations == CallsOf("runOpencodeSandbox")
Pauses == CallsOf("setTimeout")
IsUpdate(e) == e.call = "updateComment"
Updates == SelectSeq(ReqLog, IsUpdate)
IsDoneUpdate(e) == e.call = "updateComment" /\ e.ok
DoneUpdates == SelectSeq(ReqLog, IsDoneUpdate)
\* processRequest is over: it returned or an exception left it
Over == req.pc \in {"returned", "threw"}
\* the placeholder comment exists
Placed == \E i \in CallsOf("createComment") : ReqLog[i].ok
\* the n-th invocation of the agent is entry i of the log
NthInvocation(i) == Cardinality({ j \in Invocations : j <= i })

----------------------------------------------------------------------------
(* C24: direct mode fails closed on permission                            *)

\* C24: when the permission lookup answers neither admin nor write, or the
\* lookup fails, processRequest has returned without an exception and has
\* made no call at all: no comment created or updated, no agent invocation.
C24_FailsClosed ==
    (req.pc # "none" /\ req.lookup # <<>> /\ req.lookup[1] \notin {"admin", "write"})
        => req.pc = "returned" /\ req.log = <<>>

\* the lookup failed and the request was dropped
C24_Witness ==
    req.pc = "returned" /\ req.lookup = <<"fault">> /\ req.log = <<>>

----------------------------------------------------------------------------
(* C25: the placeholder is finalized exactly once                         *)

\* C25: once processRequest is over for a request that created its
\* placeholder, and no update of the comment failed, the comment has been
\* updated exactly once, or twice with the link of the pull request as the
\* second body.
C25_FinalizedOnce ==
    (Over /\ Placed /\ Updates = DoneUpdates)
        => \/ Len(DoneUpdates) = 1
           \/ /\ Len(DoneUpdates) = 2
              /\ req.prNumber # <<>>
              /\ DoneUpdates[2].body = PrLinkBody(req.prNumber[1])

\* the result was posted, createPullRequest threw, and the catch block
\* replaced the result by a failure message
C25_Witness ==
    /\ req.pc = "returned"
    /\ \E i \in CallsOf("createPullRequest") : ~ReqLog[i].ok
    /\ Len(DoneUpdates) = 2
    /\ DoneUpdates[2].body = FailedBody(ApiError)

----------------------------------------------------------------------------
(* C26: at most three attempts, a pause between them                      *)

\* C26: the agent is invoked at most 3 times; no invocation follows one
\* that succeeded; a failed first or second invocation, whatever its error,
\* is followed at once by a pause of 15 seconds and leads to another
\* invocation; the third failure is followed by no pause; at most 2 pauses.
C26_ThreeAttempts ==
    /\ Cardinality(Invocations) <= 3
    /\ Cardinality(Pauses) <= 2
    /\ \A i \in Invocations :
           IF ReqLog[i].ok
               THEN \A j \in Invocations : j <= i
               ELSE IF NthInvocation(i) < 3
                   THEN /\ i + 1 \in Pauses
                        /\ ReqLog[i + 1].body = <<15000>>
                        /\ req.pc = "attempt" \/ \E j \in Invocations : j > i
                   ELSE /\ i + 1 \notin Pauses
                        /\ req.pc # "attempt"
    /\ \A p \in Pauses : p - 1 \in Invocations /\ ~ReqLog[p - 1].ok

\* three invocations failed, with two pauses, and the request is over
C26_Witness ==
    /\ Over
    /\ Cardinality(Invocations) = 3
    /\ \A i \in Invocations : ~ReqLog[i].ok
    /\ Cardinality(Pauses) = 2


----------------------------------------------------------------------------
(* C27: which outcome of the retry loop is reported                       *)

\* an invocation succeeded / all three invocations failed
Succeeded == \E i \in Invocations : ReqLog[i].ok
Exhausted == Cardinality(Invocations) = 3 /\ \A i \in Invocations : ~ReqLog[i].ok
\* the message thrown by the n-th invocation
ErrorOf(n) == ReqLog[CHOOSE i \in Invocations : NthInvocation(i) = n].body[1]
\* the body formatResponse makes of the result
ResultBody == formatResponse(req.result[1].response, req.result[1].changedFiles)

\* C27: when all 3 invocations failed, the first update of the comment
\* carries the message of the third invocation's error, it is the only
\* update when it is delivered, and createPullRequest is never called; when
\* an invocation succeeded after failed ones, the first update carries the
\* formatted result and no update carries the message of an agent error.
\* Either way the update is made before processRequest is over.
C27_LastErrorReported ==
    /\ Exhausted =>
           /\ CallsOf("createPullRequest") = {}
           /\ Over => Updates # <<>>
           /\ Updates # <<>> =>
                  /\ Updates[1].body = FailedBody(ErrorOf(3))
                  /\ Updates[1].ok => Len(Updates) = 1
    /\ (Succeeded /\ Cardinality(Invocations) > 1) =>
           /\ Over => Updates # <<>>
           /\ Updates # <<>> => Updates[1].body = ResultBody
           /\ \A k \in DOMAIN Updates, m \in ErrorMessages : Updates[k].body # FailedBody(m)

\* three invocations failed, the first and the third with different
\* messages, and the comment was updated
C27_Witness ==
    /\ req.pc = "returned"
    /\ Exhausted
    /\ ErrorOf(1) # ErrorOf(3)
    /\ Len(DoneUpdates) = 1

----------------------------------------------------------------------------
(* C28: one comment, created first, updated afterwards                    *)

\* C28: for an actor with admin or write permission, createComment is
\* called exactly once, with the placeholder body, as the first call of the
\* request; the agent is invoked only after the comment was created; every
\* later call that writes a comment is an updateComment.
C28_OnePlaceholder ==
    (req.pc # "none" /\ req.lookup # <<>> /\ req.lookup[1] \in {"admin", "write"}) =>
        /\ Cardinality(CallsOf("createComment")) <= 1
        /\ req.pc # "createComment" =>
               /\ CallsOf("createComment") = {1}
               /\ ReqLog[1].body = Placeholder
        /\ Invocations # {} => ReqLog[1].call = "createComment" /\ ReqLog[1].ok
        /\ \A i \in DOMAIN ReqLog : ReqLog[i].call = "updateComment" => Placed

\* the agent ran and its outcome was written into the placeholder
C28_Witness ==
    /\ req.pc = "returned"
    /\ req.lookup = <<"write">>
    /\ Invocations # {}
    /\ Len(DoneUpdates) >= 1
    /\ CallsOf("createComment") = {1}

----------------------------------------------------------------------------
(* C29: when a pull request is opened                                     *)

\* line 494 written out on the request and its result
IssueWithChanges ==
    /\ Succeeded
    /\ ~req.isPullRequest
    /\ req.result[1].changedFiles # <<>>
    /\ req.result[1].changedFiles[1] # <<>>
    /\ req.result[1].newBranch # <<>>
PullRequestCalls == CallsOf("createPullRequest")
Opened == \E i \in PullRequestCalls : ReqLog[i].ok

----------------------------------------------------------------------------
(* C30: pull requests from forks are refused                              *)

\* C30: when the fetched pull request's head repository is not its base
\* repository, the agent is never invoked, createPullRequest is never
\* called, and the first update of the comment, made before anything
\* else, carries the fork refusal; delivered, it is the only update.
C30_ForkRefused ==
    (req.pc # "none" /\ req.prData # <<>>
        /\ req.prData[1].headRepository # req.prData[1].baseRepository) =>
        /\ Invocations = {}
        /\ PullRequestCalls = {}
        /\ req.pc # "forkUpdate" =>
               /\ Updates # <<>>
               /\ Updates[1].body = ForkBody
               /\ Updates[1].ok => Len(Updates) = 1 /\ req.pc = "returned"

\* a fork's pull request was refused in the comment
C30_Witness ==
    /\ req.pc = "returned"
    /\ req.prData # <<>>
    /\ req.prData[1].headRepository = "fork/r"
    /\ Len(DoneUpdates) = 1
    /\ DoneUpdates[1].body = ForkBody


----------------------------------------------------------------------------
(* C31: unverified webhook requests are rejected                          *)

\* the request lacks a header or its signature is not the body's HMAC
Unverified(request) ==
    \/ request.id = <<>> \/ request.name = <<>> \/ request.signature = <<>>
    \/ request.signature # <<"sha256=good">>

\* C31: a request that lacks the delivery id, the event name or the
\* signature, or whose signature does not match, is answered with 401,
\* reaches no event handler and starts no processRequest.
C31_UnverifiedRejected ==
    (hook.pc \notin {"none", "verifyWebhook"} /\ Unverified(hook.request)) =>
        /\ hook.response = <<401>>
        /\ hook.handler = <<>>
        /\ req = NoRequest

\* a request with a signature that does not match got its placeholder
\* comment and an agent invocation, and was answered with 200
C31_Witness ==
    /\ hook.pc = "responded" /\ hook.response = <<200>>
    /\ hook.request.signature = <<"sha256=bad">>
    /\ hook.verified = <<"false">>
    /\ Placed /\ Invocations # {}


----------------------------------------------------------------------------
(* C32: the ceiling is tested before the run's status                     *)

\* C32: a poll that fires more than 30 minutes after trackRun makes no
\* status query, calls postFailureComment with 'timeout' and schedules
\* nothing, whatever the environment would have answered, a run completed
\* with success included.
C32_TimeoutBeforeStatus ==
    (Polled /\ ElapsedMs(last.track) > 30 * 60 * 1000) =>
        /\ last.path = "timeout"
        /\ last.queries = 0
        /\ last.notified = <<"timeout">>
        /\ last.scheduled = <<>>

\* the run had completed with success when the poll past the ceiling
\* fired, the polls before having found it not completed
C32_Witness ==
    /\ Polled /\ ElapsedMs(last.track) > 30 * 60 * 1000
    /\ last.env.auth = "ok" /\ last.env.query = "ok"
    /\ last.env.status = "completed" /\ last.env.conclusion = "success"
    /\ paths = {"pending", "timeout"}
    /\ last.notified = <<"timeout">> /\ last.queries = 0


----------------------------------------------------------------------------
(* C33: how long a pending entry outlives its registration                *)

\* the cleanup trigger just fired found an entry under its key
CleanupRemoved == CleanedUp /\ Lookup(last.before.pendingWorkflows, last.key) # << >>
\* the entry it found, and the time its own registration set for cleanup
RemovedEntry == Lookup(last.before.pendingWorkflows, last.key)[1]
OwnCleanupMs == RemovedEntry.createdAt + PENDING_WORKFLOW_CLEANUP_SECONDS * 1000

\* C33 as stated: an entry removed by a cleanup trigger was registered, or
\* last overwritten, at least 600 seconds before.
C33_NoEarlyCleanup ==
    CleanupRemoved => DateNow >= RemovedEntry.createdAt + 600 * 1000

\* C33: a cleanup trigger fires no earlier than the time set when it was
\* scheduled and removes the entry then stored under its key; when that
\* entry is younger than 600 seconds, the trigger came from an earlier
\* registration of the key and the trigger of the entry's own registration
\* is still outstanding.
C33_CleanupByKey ==
    CleanedUp =>
        /\ last.trigger.time <= now
        /\ (CleanupRemoved /\ DateNow < OwnCleanupMs) =>
               /\ last.trigger.time * 1000 < OwnCleanupMs
               /\ \E s \in schedules :
                      /\ s.callback = "cleanupPendingWorkflow"
                      /\ s.payload.key = last.key
                      /\ s.time * 1000 = OwnCleanupMs

\* a key registered at 0 and again at 300 s lost its entry at 600 s, when
\* the first registration's trigger fired
C33_Witness ==
    /\ CleanupRemoved
    /\ RemovedEntry.createdAt = PendingStep * 1000
    /\ now = PENDING_WORKFLOW_CLEANUP_SECONDS
    /\ Lookup(state.pendingWorkflows, last.key) = << >>


----------------------------------------------------------------------------
(* C34: interleaved calls leave the state of a serial order               *)

RECURSIVE SerialState(_)
\* the state the calls of log leave when run one after the other
SerialState(log) ==
    IF log = <<>> THEN initialState
    ELSE LET s == SerialState(SubSeq(log, 1, Len(log) - 1))
             c == log[Len(log)]
         IN  CASE c.op = "setInstallationId" ->
                      [ s EXCEPT !.installationId = c.arg.id ]
               [] c.op = "addPendingWorkflow" ->
                      [ s EXCEPT !.pendingWorkflows =
                            SetKey(@, KeyOf(c.arg.actor, c.arg.timestamp),
                                   [ issueNumber |-> c.arg.issueNumber, actor |-> c.arg.actor,
                                     timestamp |-> c.arg.timestamp, createdAt |-> c.at * 1000 ]) ]
               [] c.op = "consumePendingWorkflow" ->
                      [ s EXCEPT !.pendingWorkflows =
                            consumePendingWorkflowResult(@, c.arg.actor).pendingWorkflows ]
               [] OTHER ->
                      [ s EXCEPT !.pendingWorkflows = cleanupResult(@, c.arg.key) ]

\* the consumePendingWorkflow calls so far, by their place in calls.serial
ConsumeCalls == { i \in DOMAIN calls.serial : calls.serial[i].op = "consumePendingWorkflow" }

\* C34: whatever the interleaving at the awaits, the pending map and the
\* installation id are those the calls leave when run one after the other
\* in the order in which they touched the state; every
\* consumePendingWorkflow returned what it returns in that serial order;
\* and two consumePendingWorkflow calls returned the same entry only if it
\* was registered again between them.
C34_NoLostUpdate ==
    /\ state = SerialState(calls.serial)
    /\ \A i \in ConsumeCalls :
           calls.serial[i].result =
               consumePendingWorkflowResult(
                   SerialState(SubSeq(calls.serial, 1, i - 1)).pendingWorkflows,
                   calls.serial[i].arg.actor).result
    /\ \A i, j \in ConsumeCalls :
           (i < j /\ calls.serial[i].result # <<>>
                  /\ calls.serial[i].result = calls.serial[j].result) =>
               \E k \in (i + 1) .. (j - 1) :
                   /\ calls.serial[k].op = "addPendingWorkflow"
                   /\ calls.serial[k].arg.actor = calls.serial[i].arg.actor

\* two registrations, the second still suspended at its await when
\* consumePendingWorkflow ran: the cleanup trigger of the consumed entry is
\* not yet in place
C34_Witness ==
    /\ Len(calls.serial) = 3
    /\ calls.serial[1].op = "addPendingWorkflow"
    /\ calls.serial[2].op = "addPendingWorkflow"
    /\ calls.serial[3].op = "consumePendingWorkflow"
    /\ calls.serial[3].result # <<>>
    /\ calls.awaiting # {}
    /\ Len(state.pendingWorkflows) = 1


----------------------------------------------------------------------------
(* C35: one notification attempt per trackRun invocation                  *)

\* C35: every run of the poll handler either schedules exactly one poll
\* and calls postFailureComment not at all, or schedules none and calls it
\* at most once; over the whole chain of one trackRun invocation
\* postFailureComment is called at most once, and then no poll is left.
C35_OneAttemptPerInvocation ==
    /\ Polled =>
           \/ Len(last.scheduled) = 1 /\ last.notified = <<>>
           \/ last.scheduled = <<>> /\ Len(last.notified) <= 1
    /\ \A t \in TrackIds :
           /\ trk[t].notified <= 1
           /\ trk[t].notified = 1 => TriggersOf(t) = {}

\* after polls that met an authentication fault, a status-query fault and
\* a run not completed, the chain ended with its one notification
C35_Witness ==
    /\ {"authFault", "queryFault", "pending"} \subseteq paths
    /\ Polled /\ Len(last.notified) = 1 /\ last.scheduled = <<>>
    /\ trk[1].notified = 1 /\ schedules = {}


----------------------------------------------------------------------------
(* C36: the ceiling comparison is strict                                  *)

\* C36: with every trigger fired when due and every poll so far finding
\* the run not completed, the poll at exactly 30 minutes queries the
\* status; the k-th status query is made 30 * k seconds after trackRun, for
\* k up to 60; and the poll that notifies of the timeout fires at 1830
\* seconds, after 60 queries.
C36_StrictCeiling ==
    (Polled /\ paths \subseteq {"pending", "timeout"}) =>
        LET e == last.at * 1000 - trk[last.track].trackedAt * 1000
        IN  /\ e = 1800 * 1000 => last.path = "pending" /\ last.queries = 1
            /\ last.path = "pending" =>
                   /\ e <= 1800 * 1000
                   /\ last.queried * 30 * 1000 = e
            /\ last.path = "timeout" =>
                   /\ e = 1830 * 1000
                   /\ last.queried = 60
                   /\ last.queries = 0
                   /\ last.notified = <<"timeout">>

\* the 60th query was made and the next poll notified of the timeout
C36_Witness ==
    /\ Polled /\ paths = {"pending", "timeout"}
    /\ last.path = "timeout" /\ last.queried = 60
    /\ last.at = trk[1].trackedAt + 1830


-----------------------------------------------------------------------------
(* Workflow mode: vocabulary                                               *)

\* the calls of runWorkflowMode in the given variant of the file
ModeCallsOf(variant) ==
    { i \in DOMAIN wf : wf[i].fn = "runWorkflowMode" /\ wf[i].variant = variant }

\* the positions in the log of call c at which one of the named calls stands
LogOf(c, names) == { k \in DOMAIN c.log : c.log[k].call \in names }

TrackerOps == {"setInstallationId", "addPendingWorkflow"}

\* GitHub answered the contents query of call c with the file
FileFound(c) == LogOf(c, {"fileExists"}) # {} /\ c.log[2].ok
FileMissing(c) == LogOf(c, {"fileExists"}) # {} /\ ~c.log[2].ok

-----------------------------------------------------------------------------
(* C37: runWorkflowMode registers iff the workflow file exists             *)

\* C37: a call of runWorkflowMode (workflow.ts) registers a pending
\* correlation only if the contents query found the workflow file, and has
\* registered one when it returns after the query found it; it calls
\* setInstallationId before addPendingWorkflow, so the installation id is
\* set whenever the pending map is not empty, and the keys of the map are
\* those of the registering calls; when the file was not found the call
\* goes on with findOpenPR (the workflow-PR path) and makes no tracker call.
C37_RegistersIffWorkflow ==
    /\ \A i \in ModeCallsOf("workflow.ts") :
           LET c == wf[i]
               adds == LogOf(c, {"addPendingWorkflow"})
           IN  /\ adds # {} => FileFound(c)
               /\ (FileFound(c) /\ c.pc = "done") =>
                      /\ Cardinality(adds) = 1
                      /\ c.result = <<RegisteredResult>>
               /\ \A k \in adds : \E j \in LogOf(c, {"setInstallationId"}) : j < k
               /\ FileMissing(c) =>
                      /\ LogOf(c, TrackerOps) = {}
                      /\ c.pc # "done" => c.pc \in {"findOpenPR", "commentExisting",
                             "getDefaultBranchSha", "createBranch", "createOrUpdateFile",
                             "createPullRequest", "commentCreated"}
                      /\ Len(c.log) >= 3 => c.log[3].call = "findOpenPR"
    /\ state.pendingWorkflows # <<>> => state.installationId \in InstallationIds
    /\ KeysOf(state.pendingWorkflows) =
           { KeyOf(wf[i].context.actor, wf[i].context.timestamp) :
                 i \in { j \in ModeCallsOf("workflow.ts") :
                             LogOf(wf[j], {"addPendingWorkflow"}) # {} } }

\* one call has registered its correlation, another found no workflow file
\* and has opened the workflow pull request
C37_Witness ==
    /\ Len(wf) = 2
    /\ \E i, j \in ModeCallsOf("workflow.ts") :
           /\ wf[i].result = <<RegisteredResult>>
           /\ FileMissing(wf[j]) /\ wf[j].pc = "done"
           /\ LogOf(wf[j], {"createPullRequest"}) # {}
    /\ state.pendingWorkflows # <<>>
    /\ state.installationId \in InstallationIds

-----------------------------------------------------------------------------
(* C39: createWorkflowPR opens no second workflow pull request             *)

\* C39: in either variant, when findOpenPR answered with an open pull
\* request the call makes exactly one further call, the comment naming that
\* pull request (createComment in workflow.ts, updateComment in part_000),
\* returns success = false with that pull request's URL, and calls neither
\* createBranch nor createOrUpdateFile nor createPullRequest; otherwise,
\* after a failed createBranch the call goes on only if the error's message
\* includes "Reference already exists", and an error whose message does not
\* is thrown by the call with the failed createBranch as its last call.
C39_NoSecondWorkflowPR ==
    \A i \in DOMAIN wf :
        LET c == wf[i]
            found == LogOf(c, {"findOpenPR"})
            comments == LogOf(c, {"createComment", "updateComment"})
            failed == { k \in LogOf(c, {"createBranch"}) : ~c.log[k].ok }
        IN  /\ (c.fn = "runWorkflowMode" /\ c.existingPR # <<>>) =>
                   LET pr == c.existingPR[1]
                   IN  /\ LogOf(c, {"createBranch", "createOrUpdateFile",
                                    "createPullRequest", "getDefaultBranchSha"}) = {}
                       /\ Cardinality(comments) <= 1
                       /\ \A k \in comments :
                              /\ \A f \in found : k = f + 1
                              /\ k = Len(c.log)
                              /\ c.log[k].body = ExistingBody(pr)
                              /\ c.log[k].call = IF c.variant = "workflow.ts"
                                                 THEN "createComment" ELSE "updateComment"
                       /\ c.pc = "done" =>
                              /\ Cardinality(comments) = 1
                              /\ c.threw = <<>> =>
                                     /\ c.result # <<>>
                                     /\ c.result[1].success = FALSE
                                     /\ c.result[1].prUrl = <<pr.url>>
            /\ \A k \in failed :
                   IF Includes(c.log[k].body, "Reference already exists")
                   THEN TRUE
                   ELSE /\ k = Len(c.log)
                        /\ c.pc = "done"
                        /\ c.result = <<>>
                        /\ c.threw # <<>> /\ c.threw[1].message = c.log[k].body
            /\ \A k \in failed :
                   k < Len(c.log) => Includes(c.log[k].body, "Reference already exists")

\* both cases have happened: one call has answered with the open pull
\* request, another has thrown the Not Found error of createBranch
C39_Witness ==
    \E i, j \in DOMAIN wf :
        /\ wf[i].pc = "done" /\ wf[i].existingPR # <<>> /\ wf[i].result # <<>>
        /\ wf[i].variant # wf[j].variant
        /\ wf[j].pc = "done" /\ wf[j].threw # <<>>
        /\ wf[j].threw[1].message = <<"Not Found">>
        /\ wf[j].log[Len(wf[j].log)].call = "createBranch"


-----------------------------------------------------------------------------
(* C38: findWorkflowRun makes at most four queries and returns null        *)

\* the positions of the list queries in the log of call c
QueriesOf(c) == { k \in DOMAIN c.log : c.log[k].call = "listWorkflowRuns" }

\* the query at position k resolved with a run of the actor of call c
HasMatch(c, k) ==
    /\ c.log[k].ok
    /\ \E r \in DOMAIN c.log[k].runs :
           c.log[k].runs[r].triggering_actor = <<c.triggeringActor>>

\* C38: a call of findWorkflowRun makes at most 4 list queries; the first
\* is made at once, and the n-th (n = 2, 3, 4) right after a sleep of
\* 10, 20, 30 seconds that follows the query before it; a query that finds
\* a run of the actor is the last one, and the call returns the first such
\* run of its list; a query that throws or finds none is followed by the
\* next attempt; the call never throws, and it returns null only after 4
\* queries none of which found a run of the actor.
C38_BoundedSearch ==
    \A i \in { j \in DOMAIN wf : wf[j].fn = "findWorkflowRun" } :
        LET c == wf[i]
            q == QueriesOf(c)
            nth(k) == Cardinality({ j \in q : j <= k })
        IN  /\ Cardinality(q) <= 4
            /\ c.threw = <<>>
            /\ \A k \in DOMAIN c.log :
                   IF k \in q
                   THEN IF nth(k) = 1
                        THEN k = 1 /\ c.log[k].at = c.calledAt
                        ELSE /\ c.log[k - 1].call = "sleep"
                             /\ c.log[k - 1].ms = (nth(k) - 1) * 10 * 1000
                             /\ c.log[k].at >= c.log[k - 1].at + (nth(k) - 1) * 10
                   ELSE /\ c.log[k].call = "sleep"
                        /\ k - 1 \in q
                        /\ ~HasMatch(c, k - 1)
            /\ \A k \in q : HasMatch(c, k) =>
                   /\ k = Len(c.log)
                   /\ c.pc = "done"
                   /\ c.result # <<>>
                   /\ \E r \in DOMAIN c.log[k].runs :
                          LET runs == c.log[k].runs
                          IN  /\ runs[r].triggering_actor = <<c.triggeringActor>>
                              /\ \A e \in 1 .. r - 1 :
                                     runs[e].triggering_actor # <<c.triggeringActor>>
                              /\ c.result[1].id = runs[r].id
                              /\ c.result[1].url = runs[r].html_url
            /\ c.result # <<>> => c.log # <<>> /\ HasMatch(c, Len(c.log))
            /\ \A k \in q : (~HasMatch(c, k) /\ nth(k) < 4 /\ k = Len(c.log)) => c.pc = "sleep"
            /\ (c.pc = "done" /\ c.result = <<>>) =>
                   /\ Cardinality(q) = 4
                   /\ \A k \in q : ~HasMatch(c, k)

\* a query threw, the next ones found no run of the actor and the fourth,
\* 60 seconds after the call, found the run that is returned
C38_Witness ==
    /\ Len(wf) = 1 /\ wf[1].fn = "findWorkflowRun"
    /\ wf[1].pc = "done"
    /\ wf[1].triggeringActor = "alice"
    /\ wf[1].result # <<>> /\ wf[1].result[1].id = "12"
    /\ Cardinality(QueriesOf(wf[1])) = 4
    /\ ~wf[1].log[1].ok
    /\ now = wf[1].calledAt + 60

====
